---- MODULE Spec2Model ----
(***************************************************************************)
(* A model of the go-cqrs mediator: the handler registry, the event        *)
(* registry, the middleware builder, and the calls AddCommandHandler /     *)
(* AddQueryHandler (addRequest), PreMiddleware, PostMiddleware,            *)
(* SendCommand / SendQuery (send), AddEventHandlers and PublishEvent.      *)
(* Every call is run by a goroutine (a process) as a sequence of steps,    *)
(* one step per access to shared state or per invocation of caller code.   *)
(***************************************************************************)
EXTENDS Integers, Sequences, FiniteSets, TLC

(***************************************************************************)
(* Bounds of the model.                                                    *)
(***************************************************************************)
\* the number of middleware entries stored over all lists of the builder
MaxMiddlewares == 3
\* the number of handlers given to one AddEventHandlers call
MaxEventArgs == 2

(***************************************************************************)
(* Values.  A Go type is modelled by its String(): a sequence of tokens,   *)
(* so that "*pkg.K1" is <<"*", "K1">>.                                     *)
(***************************************************************************)
K1 == <<"K1">>
K2 == <<"K2">>
PtrK1 == <<"*", "K1">>

\* strings.TrimPrefix(s, "*")
TrimPrefix(s) == IF Len(s) > 0 /\ Head(s) = "*" THEN Tail(s) ELSE s

\* the nil interface value (a request, an event or a response that is nil)
Nil == [type |-> <<>>, pay |-> 0, marks |-> <<>>]
\* a request or event value of dynamic type t carrying payload n
Value(t, n) == [type |-> t, pay |-> n, marks |-> <<>>]
\* reflect.TypeOf(v).String()
TypeOf(v) == v.type

\* error values: the nil error is the empty sequence, fmt.Errorf gives a
\* one-element sequence, errors.Join concatenates
NoErr == <<>>
Errorf(msg) == <<msg>>

\* contexts: a caller's context, and contexts derived from it by middleware
Ctx(c) == <<c>>
\* a context that was cancelled before the call; the contexts derived from it
\* are cancelled too
CanceledCtx == Ctx("canceled")
\* ctx.Err()
Err(ctx) == IF ctx # <<>> /\ Head(ctx) = "canceled" THEN Errorf("context canceled") ELSE NoErr

\* response values: a response of Go type t computed by handler id from request r
Response(t, id, r) == [type |-> t, by |-> id, of |-> r]
\* the zero value of response type t
Zero(t) == [type |-> t, by |-> "", of |-> Nil]
\* the untyped nil response (out T = nil)
NilResponse == [type |-> "", by |-> "", of |-> Nil]

(***************************************************************************)
(* Caller-supplied code: handlers, event handlers, middleware functions.   *)
(***************************************************************************)
\* an IHandler[req, resp] implementation: id is the instance, name is
\* reflect.TypeOf(handler).String()
Handler(id, name, req, resp, fails) ==
    [id |-> id, name |-> name, req |-> req, resp |-> resp, fails |-> fails]
NoHandler == Handler("", "", <<>>, "", FALSE)

H1 == Handler("h1", "*H1", K1, "R1", FALSE)
\* a second instance of H1's type, whose Handle returns an error
H2 == Handler("h2", "*H1", K1, "R1", TRUE)
H3 == Handler("h3", "*H3", K2, "R2", FALSE)
Handlers == {H1, H2, H3}

\* an IEventHandler[ev] implementation
EventHandler(id, name, ev, fails) ==
    [id |-> id, name |-> name, ev |-> ev, fails |-> fails]
NoEventHandler == EventHandler("", "", <<>>, FALSE)

E1 == EventHandler("e1", "*E1", K1, FALSE)
E2 == EventHandler("e2", "*E2", K1, TRUE)
E3 == EventHandler("e3", "*E3", K1, TRUE)
\* a second instance of E1's type, whose Handle returns an error
E1b == EventHandler("e1b", "*E1", K1, TRUE)
E4 == EventHandler("e4", "*E4", K2, FALSE)
EventHandlersOf(t) == {e \in {E1, E2, E3, E1b, E4} : e.ev = t}

\* what the event handler's Handle method returns for (ctx, event)
HandleEventOf(e, ctx, event) == IF e.fails THEN Errorf(e.id) ELSE NoErr

\* what the handler's Handle method returns for (ctx, request)
HandleOf(h, ctx, request) ==
    [response |-> Response(h.resp, h.id, request),
     err |-> IF h.fails THEN Errorf(h.id) ELSE NoErr]

\* a middleware function value: name is what
\* runtime.FuncForPC(reflect.ValueOf(f).Pointer()).Name() gives (the name of
\* the function's code, shared by all closures of one function literal);
\* cont, req and ctx are what the closure does
Middleware(id, name, cont, req, ctx) ==
    [id |-> id, name |-> name, cont |-> cont, req |-> req, ctx |-> ctx]
NoMiddleware == Middleware("", "", TRUE, "same", "same")

MwA == Middleware("a", "A", TRUE, "tag", "derive")
MwB == Middleware("b", "B", FALSE, "tag", "same")
MwC == Middleware("c", "C", TRUE, "same", "same")
\* a second closure of B's function literal: it stops the chain with a nil request
MwBnil == Middleware("bnil", "B", FALSE, "nil", "same")
\* a second closure of C's function literal: it returns a request of another type
MwCtype == Middleware("ctype", "C", TRUE, "retype", "same")
PreFuncs == {MwA, MwB, MwC, MwBnil, MwCtype}
PostFuncs == {MwA, MwB}

\* m.middlewareFunc(ctx, request): the context, the request and the chain flag
CallMiddleware(f, ctx, request) ==
    [ctx |-> IF f.ctx = "derive" THEN Append(ctx, f.name) ELSE ctx,
     request |->
        IF request = Nil \/ f.req = "nil" THEN Nil
        ELSE IF f.req = "tag" THEN [request EXCEPT !.marks = Append(@, f.name)]
        ELSE IF f.req = "retype" THEN [request EXCEPT !.type = K2]
        ELSE request,
     chain |-> f.cont]

\* caller code that panics when it is invoked: a handler, an event handler and
\* a middleware function; the panic value is the id
H7 == Handler("h7", "*H7", K2, "R2", FALSE)
E7 == EventHandler("e7", "*E7", K1, FALSE)
MwP == Middleware("p", "P", TRUE, "same", "same")
Panics(x) == x.id \in {H7.id, E7.id, MwP.id}

\* the record of one invocation of caller code: which code, with what arguments
Invoked(kind, id, ctx, request) ==
    [kind |-> kind, id |-> id, ctx |-> ctx, request |-> request]

\* runtime.FuncForPC(...).Name() with the "*" prefix trimmed
FuncName(f) == f.name

(***************************************************************************)
(* State.                                                                  *)
(***************************************************************************)
Procs == {1, 2, 3}

VARIABLES
    handlers,           \* map[string]any: type key -> *handlerWrapper
    handlerMutex,       \* sync.RWMutex of handlers
    eventHandlers,      \* map[string][]eventHandlersType
    eventHandlerMutex,  \* sync.RWMutex of eventHandlers
    middlewareBuilder,  \* the one AddMiddlewareBuilder of the package
    pc,                 \* the position of each goroutine in its call
    call,               \* the call each goroutine is running or ran last
    loc,                \* the local variables of the running call
    trace,              \* what the running or last call did: the caller code it
                        \* invoked, and the registry entry it replaced
    result              \* how the last call ended

vars == <<handlers, handlerMutex, eventHandlers, eventHandlerMutex,
          middlewareBuilder, pc, call, loc, trace, result>>

\* map helpers: v, ok := m[k]
Has(m, k) == k \in DOMAIN m
Put(m, k, v) == [x \in DOMAIN m \cup {k} |-> IF x = k THEN v ELSE m[x]]
EmptyMap == [x \in {} |-> 0]

\* sync.RWMutex
\* w is the goroutine inside the exclusive section (0 for none), r the
\* goroutines inside the shared section, waiting the goroutines blocked in
\* Lock() behind readers: a blocked Lock excludes new readers
Unlocked == [w |-> 0, r |-> {}, waiting |-> {}]
CanLock(mu) == mu.w = 0 /\ mu.r = {}
\* a shared section that is entered while a writer holds the mutex
CanRLockAlways(mu) == TRUE
\* a shared section that admits one reader at a time
CanRLockAlone(mu) == mu.w = 0 /\ mu.r = {} /\ mu.waiting = {}
CanRLock(mu) == mu.w = 0 /\ mu.waiting = {}
\* a deferred RUnlock that does not release the shared section
RUnlockKept(mu, p) == mu
\* mutex.RUnlock() by goroutine p
RUnlock(mu, p) == [mu EXCEPT !.r = @ \ {p}]

NoCall == [op |-> "none", ctx |-> <<>>, in |-> Nil, rtype |-> "",
           handler |-> NoHandler, fn |-> NoMiddleware, tevent |-> <<>>, hs |-> <<>>]
NoLoc == [typed |-> <<>>, value |-> NoHandler, name |-> "", ok |-> FALSE,
          list |-> <<>>, i |-> 0, ctx |-> <<>>, in |-> Nil,
          response |-> NilResponse, err |-> NoErr]
NoResult == [kind |-> "none", response |-> NilResponse, err |-> NoErr]

Init ==
    /\ handlers = EmptyMap
    /\ handlerMutex = Unlocked
    /\ eventHandlers = EmptyMap
    /\ eventHandlerMutex = Unlocked
    /\ middlewareBuilder = [currentHandlerName |-> "",
                            preMiddlewares |-> EmptyMap,
                            postMiddlewares |-> EmptyMap]
    /\ pc = [p \in Procs |-> "idle"]
    /\ call = [p \in Procs |-> NoCall]
    /\ loc = [p \in Procs |-> NoLoc]
    /\ trace = [p \in Procs |-> <<>>]
    /\ result = [p \in Procs |-> NoResult]

\* a call begins: the goroutine leaves "idle" with fresh locals and an empty trace
Begin(p, c, l, at) ==
    /\ pc[p] = "idle"
    /\ pc' = [pc EXCEPT ![p] = at]
    /\ call' = [call EXCEPT ![p] = c]
    /\ loc' = [loc EXCEPT ![p] = l]
    /\ trace' = [trace EXCEPT ![p] = <<>>]
    /\ result' = [result EXCEPT ![p] = NoResult]

\* a call returns to its caller
Return(p, response, err) ==
    /\ pc' = [pc EXCEPT ![p] = "idle"]
    /\ loc' = [loc EXCEPT ![p] = NoLoc]
    /\ result' = [result EXCEPT ![p] =
                    [kind |-> "return", response |-> response, err |-> err]]

\* the condition is handed to the caller as an error value instead
ReturnError(p, msg) ==
    /\ pc' = [pc EXCEPT ![p] = "idle"]
    /\ loc' = [loc EXCEPT ![p] = NoLoc]
    /\ result' = [result EXCEPT ![p] =
                    [kind |-> "return", response |-> NilResponse, err |-> Errorf(msg)]]

\* a call panics: it does not return, and the panic unwinds to its caller
Panic(p, msg) ==
    /\ pc' = [pc EXCEPT ![p] = "idle"]
    /\ loc' = [loc EXCEPT ![p] = NoLoc]
    /\ result' = [result EXCEPT ![p] =
                    [kind |-> "panic", response |-> NilResponse, err |-> Errorf(msg)]]

(***************************************************************************)
(* addRequest: AddCommandHandler and AddQueryHandler.                      *)
(***************************************************************************)
\* newHandlerWrapper(handler, handlerName)
newHandlerWrapper(handler, handlerName) == [Handler |-> handler, Name |-> handlerName]

\* a store that keeps the entry a key already has
storeIfAbsent(m, key, value) == IF Has(m, key) THEN m ELSE Put(m, key, value)

\* storeMapValue's body, inside the exclusive section: m[key] = value
storeMapValue(m, key, value) == Put(m, key, value)

\* a key space of their own for the handlers of queries
typedPerKind(kind, T1) == IF kind = "AddQueryHandler" THEN <<"query">> \o T1 ELSE T1

\* typed := reflect.TypeOf(new(T1)).Elem().String(), in the one addRequest that
\* AddCommandHandler and AddQueryHandler both call
typedOf(kind, T1) == T1

\* the call: typed and typedHandlerName are computed from the type arguments
addRequest(p, kind, handler) ==
    /\ Begin(p, [NoCall EXCEPT !.op = kind, !.handler = handler],
             [NoLoc EXCEPT !.typed = typedOf(kind, handler.req), !.name = handler.name],
             "add_lock")
    /\ UNCHANGED <<handlers, handlerMutex, eventHandlers, eventHandlerMutex,
                   middlewareBuilder>>

\* the nil IHandler[K1, R1]: the one handler without a Handle method that the
\* parameter type of the registration functions admits
NilHandler == Handler("nil", "", K1, "R1", FALSE)

\* addRequest is called with the nil handler
addRequestNil(p, kind) ==
    /\ Begin(p, [NoCall EXCEPT !.op = kind, !.handler = NilHandler],
             [NoLoc EXCEPT !.typed = typedOf(kind, NilHandler.req)], "add_nil")
    /\ UNCHANGED <<handlers, handlerMutex, eventHandlers, eventHandlerMutex,
                   middlewareBuilder>>

\* reflect.TypeOf(handler) is nil and its String() panics, before the store
addRequestNilPanic(p) ==
    /\ pc[p] = "add_nil"
    /\ Panic(p, "nil pointer dereference")
    /\ UNCHANGED <<handlers, handlerMutex, eventHandlers, eventHandlerMutex,
                   middlewareBuilder, call, trace>>

\* storeMapValue: mutex.Lock()
addRequestLock(p) ==
    /\ pc[p] = "add_lock"
    /\ CanLock(handlerMutex)
    /\ handlerMutex.waiting \subseteq {p}
    /\ handlerMutex' = [handlerMutex EXCEPT !.w = p, !.waiting = {}]
    /\ pc' = [pc EXCEPT ![p] = "add_store"]
    /\ UNCHANGED <<handlers, eventHandlers, eventHandlerMutex, middlewareBuilder,
                   call, loc, trace, result>>

\* storeMapValue: mutex.Lock() finds readers inside the shared section and
\* blocks; from then on no new reader enters until the writer is done
addRequestLockWait(p) ==
    /\ pc[p] = "add_lock"
    /\ handlerMutex.w = 0
    /\ handlerMutex.r # {}
    /\ handlerMutex.waiting = {}
    /\ handlerMutex' = [handlerMutex EXCEPT !.waiting = {p}]
    /\ UNCHANGED <<handlers, eventHandlers, eventHandlerMutex, middlewareBuilder,
                   pc, call, loc, trace, result>>

\* storeMapValue: m[key] = value, then the deferred mutex.Unlock(); the trace
\* notes the handler whose entry the write replaced ("" when the key was new)
addRequestStore(p) ==
    /\ pc[p] = "add_store"
    /\ handlers' = storeMapValue(handlers, loc[p].typed,
                                 newHandlerWrapper(call[p].handler, loc[p].name))
    /\ handlerMutex' = Unlocked
    /\ pc' = [pc EXCEPT ![p] = "add_current"]
    /\ trace' = [trace EXCEPT ![p] =
           Append(@, Invoked("replaced",
                             IF Has(handlers, loc[p].typed)
                             THEN handlers[loc[p].typed].Handler.id ELSE "",
                             <<>>, Nil))]
    /\ UNCHANGED <<eventHandlers, eventHandlerMutex, middlewareBuilder,
                   call, loc, result>>

\* middlewareBuilder.currentHandlerName = typedHandlerName; return &middlewareBuilder
addRequestCurrent(p) ==
    /\ pc[p] = "add_current"
    /\ middlewareBuilder' =
         [middlewareBuilder EXCEPT !.currentHandlerName = loc[p].name]
    /\ Return(p, NilResponse, NoErr)
    /\ UNCHANGED <<handlers, handlerMutex, eventHandlers, eventHandlerMutex,
                   call, trace>>

(***************************************************************************)
(* The middleware builder: PreMiddleware and PostMiddleware.               *)
(***************************************************************************)
middlewareStruct(f) == [middlewareName |-> FuncName(f), middlewareFunc |-> f]

\* a check that never finds the name
neverRegisteredForHandler(middlewares, middlewareName) == FALSE

isMiddlewareRegisteredForHandler(middlewares, middlewareName) ==
    \E i \in DOMAIN middlewares : middlewares[i].middlewareName = middlewareName

\* an insertion at the front of the slice
PrependTo(m, key, x) == Put(m, key, <<x>> \o (IF Has(m, key) THEN m[key] ELSE <<>>))

\* append(m[key], x) on a map of slices: a missing key reads as the nil slice
AppendTo(m, key, x) == Put(m, key, Append(IF Has(m, key) THEN m[key] ELSE <<>>, x))

\* the number of middleware entries the builder stores
Stored(m) ==
    LET RECURSIVE Sum(_)
        Sum(ks) == IF ks = {} THEN 0
                   ELSE LET k == CHOOSE x \in ks : TRUE
                        IN Len(m[k]) + Sum(ks \ {k})
    IN Sum(DOMAIN m)
StoredMiddlewares ==
    Stored(middlewareBuilder.preMiddlewares) + Stored(middlewareBuilder.postMiddlewares)

\* callers hold the builder only as the value addRequest returned
HasBuilder == middlewareBuilder.currentHandlerName # ""

\* the call: typedMiddlewareName and the middlewareStruct are built
PreMiddleware(p, f) ==
    /\ HasBuilder
    /\ StoredMiddlewares < MaxMiddlewares
    /\ Begin(p, [NoCall EXCEPT !.op = "PreMiddleware", !.fn = f],
             [NoLoc EXCEPT !.name = FuncName(f)], "pre_read")
    /\ UNCHANGED <<handlers, handlerMutex, eventHandlers, eventHandlerMutex,
                   middlewareBuilder>>

\* middlewares, ok := middlewareBuilder.preMiddlewares[currentHandlerName]
PreMiddlewareRead(p) ==
    /\ pc[p] = "pre_read"
    /\ LET cur == middlewareBuilder.currentHandlerName
           m == middlewareBuilder.preMiddlewares
       IN loc' = [loc EXCEPT ![p].ok = Has(m, cur),
                             ![p].list = IF Has(m, cur) THEN m[cur] ELSE <<>>]
    /\ pc' = [pc EXCEPT ![p] = "pre_write"]
    /\ UNCHANGED <<handlers, handlerMutex, eventHandlers, eventHandlerMutex,
                   middlewareBuilder, call, trace, result>>

\* the map after PreMiddleware's write: a first entry, an append, or nothing
preMiddlewaresAfter(m, cur, ok, middlewares, middleware) ==
    IF ~ok THEN Put(m, cur, <<middleware>>)
    ELSE IF ~isMiddlewareRegisteredForHandler(middlewares, middleware.middlewareName)
         THEN AppendTo(m, cur, middleware)
         ELSE m

PreMiddlewareWrite(p) ==
    /\ pc[p] = "pre_write"
    /\ middlewareBuilder' =
         [middlewareBuilder EXCEPT !.preMiddlewares =
            preMiddlewaresAfter(@, middlewareBuilder.currentHandlerName,
                                loc[p].ok, loc[p].list, middlewareStruct(call[p].fn))]
    /\ Return(p, NilResponse, NoErr)
    /\ UNCHANGED <<handlers, handlerMutex, eventHandlers, eventHandlerMutex,
                   call, trace>>

PostMiddleware(p, f) ==
    /\ HasBuilder
    /\ StoredMiddlewares < MaxMiddlewares
    /\ Begin(p, [NoCall EXCEPT !.op = "PostMiddleware", !.fn = f],
             [NoLoc EXCEPT !.name = FuncName(f)], "post_read")
    /\ UNCHANGED <<handlers, handlerMutex, eventHandlers, eventHandlerMutex,
                   middlewareBuilder>>

\* middlewares, ok := middlewareBuilder.postMiddlewares[currentHandlerName]
PostMiddlewareRead(p) ==
    /\ pc[p] = "post_read"
    /\ LET cur == middlewareBuilder.currentHandlerName
           m == middlewareBuilder.postMiddlewares
       IN loc' = [loc EXCEPT ![p].ok = Has(m, cur),
                             ![p].list = IF Has(m, cur) THEN m[cur] ELSE <<>>]
    /\ pc' = [pc EXCEPT ![p] = "post_write"]
    /\ UNCHANGED <<handlers, handlerMutex, eventHandlers, eventHandlerMutex,
                   middlewareBuilder, call, trace, result>>

\* a write that also skips a name the pre-list of the handler holds
postMiddlewaresAfterUnlessPre(m, cur, ok, middlewares, middleware) ==
    IF /\ Has(middlewareBuilder.preMiddlewares, cur)
       /\ isMiddlewareRegisteredForHandler(middlewareBuilder.preMiddlewares[cur],
                                           middleware.middlewareName)
    THEN m
    ELSE IF ~ok THEN Put(m, cur, <<middleware>>)
    ELSE IF ~isMiddlewareRegisteredForHandler(middlewares, middleware.middlewareName)
         THEN AppendTo(m, cur, middleware)
         ELSE m

\* the map after PostMiddleware's write
postMiddlewaresAfter(m, cur, ok, middlewares, middleware) ==
    IF ~ok THEN Put(m, cur, <<middleware>>)
    ELSE IF ~isMiddlewareRegisteredForHandler(middlewares, middleware.middlewareName)
         THEN AppendTo(m, cur, middleware)
         ELSE m

PostMiddlewareWrite(p) ==
    /\ pc[p] = "post_write"
    /\ middlewareBuilder' =
         [middlewareBuilder EXCEPT !.postMiddlewares =
            postMiddlewaresAfter(@, middlewareBuilder.currentHandlerName,
                                 loc[p].ok, loc[p].list, middlewareStruct(call[p].fn))]
    /\ Return(p, NilResponse, NoErr)
    /\ UNCHANGED <<handlers, handlerMutex, eventHandlers, eventHandlerMutex,
                   call, trace>>

(***************************************************************************)
(* send: SendCommand and SendQuery.                                        *)
(***************************************************************************)
\* the call: typedIn := reflect.TypeOf(in).String(), which panics on a nil
\* request (reflect.TypeOf(nil) is the nil Type)
send(p, kind, ctx, in, rtype) ==
    /\ Begin(p, [NoCall EXCEPT !.op = kind, !.ctx = ctx, !.in = in, !.rtype = rtype],
             [NoLoc EXCEPT !.typed = TypeOf(in), !.ctx = ctx, !.in = in],
             IF in = Nil THEN "send_nil" ELSE "send_rlock")
    /\ UNCHANGED <<handlers, handlerMutex, eventHandlers, eventHandlerMutex,
                   middlewareBuilder>>

sendNil(p) ==
    /\ pc[p] = "send_nil"
    /\ Panic(p, "nil pointer dereference")
    /\ UNCHANGED <<handlers, handlerMutex, eventHandlers, eventHandlerMutex,
                   middlewareBuilder, call, trace>>

\* getMapValue: mutex.RLock()
sendRLock(p) ==
    /\ pc[p] = "send_rlock"
    /\ CanRLock(handlerMutex)
    /\ handlerMutex' = [handlerMutex EXCEPT !.r = @ \cup {p}]
    /\ pc' = [pc EXCEPT ![p] = "send_load"]
    /\ UNCHANGED <<handlers, eventHandlers, eventHandlerMutex, middlewareBuilder,
                   call, loc, trace, result>>

\* a lookup that finds the entry of some other key
getMapValueAnyKey(m, key) ==
    IF DOMAIN m \ {key} # {}
    THEN [value |-> m[CHOOSE k \in DOMAIN m \ {key} : TRUE], ok |-> TRUE]
    ELSE [value |-> newHandlerWrapper(NoHandler, ""), ok |-> FALSE]

\* getMapValue's body, inside the shared section: v, ok := m[key]
getMapValue(m, key) ==
    [value |-> IF Has(m, key) THEN m[key] ELSE newHandlerWrapper(NoHandler, ""),
     ok |-> Has(m, key)]

\* getMapValue: the read, then the deferred mutex.RUnlock(); send panics when
\* the key is not found.  The entry is a *handlerWrapper, so its Handler
\* field, its Handle method and its Name field are always found.
sendLoad(p) ==
    /\ pc[p] = "send_load"
    /\ handlerMutex' = RUnlock(handlerMutex, p)
    /\ LET got == getMapValue(handlers, loc[p].typed)
       IN IF ~got.ok
          THEN Panic(p, "no handler found")
          ELSE /\ loc' = [loc EXCEPT ![p].value = got.value.Handler,
                                     ![p].name = got.value.Name]
               /\ pc' = [pc EXCEPT ![p] = "send_pre"]
               /\ UNCHANGED result
    /\ UNCHANGED <<handlers, eventHandlers, eventHandlerMutex, middlewareBuilder,
                   call, trace>>

\* a chain that falls back to the list of some other handler name
chainOfAnyName(m, handlerName) ==
    IF Has(m, handlerName) THEN m[handlerName]
    ELSE IF DOMAIN m # {} THEN m[CHOOSE k \in DOMAIN m : TRUE]
    ELSE <<>>

\* the list a chain runs: middlewares, ok := m[handlerName], ranged over
chainOf(m, handlerName) == IF Has(m, handlerName) THEN m[handlerName] ELSE <<>>

\* executePreMiddlewares is entered: the list of handlerName is read
sendPre(p) ==
    /\ pc[p] = "send_pre"
    /\ LET list == chainOf(middlewareBuilder.preMiddlewares, loc[p].name)
       IN /\ loc' = [loc EXCEPT ![p].list = list, ![p].i = 1]
          /\ pc' = [pc EXCEPT ![p] = IF list = <<>> THEN "send_handle" ELSE "send_pre_mw"]
    /\ UNCHANGED <<handlers, handlerMutex, eventHandlers, eventHandlerMutex,
                   middlewareBuilder, call, trace, result>>

\* a turn that rewrites the response from the request the middleware returned
chainStepWritesResponse(l) ==
    LET r == CallMiddleware(l.list[l.i].middlewareFunc, l.ctx, l.in)
    IN [l EXCEPT !.ctx = r.ctx, !.in = r.request, !.ok = r.chain, !.i = l.i + 1,
                 !.response = [l.response EXCEPT !.of = r.request]]

\* a turn that keeps the context it was entered with
chainStepSameContext(l) ==
    LET r == CallMiddleware(l.list[l.i].middlewareFunc, l.ctx, l.in)
    IN [l EXCEPT !.in = r.request, !.ok = r.chain, !.i = l.i + 1]

\* one turn of the loop: the locals after the middleware at loc.i has run
chainStep(l) ==
    LET r == CallMiddleware(l.list[l.i].middlewareFunc, l.ctx, l.in)
    IN [l EXCEPT !.ctx = r.ctx, !.in = r.request, !.ok = r.chain, !.i = l.i + 1]

\* a loop that is left only after the last middleware
chainEndsAfterLast(l) == l.i > Len(l.list)

\* the loop is left when the middleware returned chain = false or was the last
chainEnds(l) == ~l.ok \/ l.i > Len(l.list)

\* ctx, request, chain = m.middlewareFunc(ctx, request) in executePreMiddlewares
sendPreMiddleware(p) ==
    /\ pc[p] = "send_pre_mw"
    /\ LET l == chainStep(loc[p])
           f == loc[p].list[loc[p].i].middlewareFunc
       IN /\ trace' = [trace EXCEPT ![p] =
                 Append(@, Invoked("pre", f.id, loc[p].ctx, loc[p].in))]
          /\ IF Panics(f)
             THEN Panic(p, f.id)
             ELSE /\ loc' = [loc EXCEPT ![p] = l]
                  /\ pc' = [pc EXCEPT ![p] =
                              IF chainEnds(l) THEN "send_handle" ELSE "send_pre_mw"]
                  /\ UNCHANGED result
    /\ UNCHANGED <<handlers, handlerMutex, eventHandlers, eventHandlerMutex,
                   middlewareBuilder, call>>

\* a Handle that returns what the method returned, whatever its type
reflectiveHandleUnchecked(h, ctx, in, rtype) ==
    IF in = Nil
    THEN [kind |-> "return", invoked |-> FALSE, response |-> Zero(rtype),
          err |-> Errorf("reflectiveHandler: invalid or nil request")]
    ELSE IF TypeOf(in) # h.req
    THEN [kind |-> "panic", invoked |-> FALSE, response |-> NilResponse,
          err |-> Errorf("reflect: Call using wrong type")]
    ELSE [kind |-> "return", invoked |-> TRUE,
          response |-> HandleOf(h, ctx, in).response, err |-> HandleOf(h, ctx, in).err]

\* a Handle that is given the request goroutine 1 holds
reflectiveHandleShared(h, ctx, in, rtype) ==
    LET r == HandleOf(h, ctx, loc[1].in)
    IN [kind |-> "return", invoked |-> TRUE, response |-> r.response, err |-> r.err]

\* reflectiveHandler[T, Response].Handle(ctx, in) on the Handle method of h:
\* a nil request is an error, the reflective call panics on a request the
\* method's parameter cannot take, and a result that is not a Response is an error
reflectiveHandle(h, ctx, in, rtype) ==
    IF in = Nil
    THEN [kind |-> "return", invoked |-> FALSE, response |-> Zero(rtype),
          err |-> Errorf("reflectiveHandler: invalid or nil request")]
    ELSE IF TypeOf(in) # h.req
    THEN [kind |-> "panic", invoked |-> FALSE, response |-> NilResponse,
          err |-> Errorf("reflect: Call using wrong type")]
    ELSE IF Panics(h)
    THEN [kind |-> "panic", invoked |-> TRUE, response |-> NilResponse,
          err |-> Errorf(h.id)]
    ELSE LET r == HandleOf(h, ctx, in)
         IN IF r.response.type # rtype
            THEN [kind |-> "return", invoked |-> TRUE, response |-> Zero(rtype),
                  err |-> Errorf("reflectiveHandler: error in result conversion")]
            ELSE [kind |-> "return", invoked |-> TRUE, response |-> r.response,
                  err |-> r.err]

\* the nil context.Context, and the reflect.Value of a method: the zero Value
\* (of is NoHandler), or the Handle method of a handler
NilCtx == <<>>
Method(h) == [valid |-> h # NoHandler, of |-> h]

\* a Handle that does not look at the context before the reflective call
reflectiveHandlerHandleAnyCtx(method, ctx, in, rtype) ==
    IF ~method.valid
    THEN [kind |-> "return", invoked |-> FALSE, response |-> Zero(rtype),
          err |-> Errorf("reflectiveHandler: method not initialized")]
    ELSE reflectiveHandle(method.of, ctx, in, rtype)

\* reflectiveHandler.Handle from its first line: the checks of r.method and of
\* the context, then the check of the request and the reflective call
reflectiveHandlerHandle(method, ctx, in, rtype) ==
    IF ~method.valid
    THEN [kind |-> "return", invoked |-> FALSE, response |-> Zero(rtype),
          err |-> Errorf("reflectiveHandler: method not initialized")]
    ELSE IF ctx = NilCtx
    THEN [kind |-> "return", invoked |-> FALSE, response |-> Zero(rtype),
          err |-> Errorf("reflectiveHandler: invalid or nil context")]
    ELSE reflectiveHandle(method.of, ctx, in, rtype)

\* one call of reflectiveHandler[T, rtype]{method}.Handle(ctx, in), as the
\* package's tests make it
reflectiveCall(p, method, ctx, in, rtype) ==
    /\ pc[p] = "idle"
    /\ LET r == reflectiveHandlerHandle(method, ctx, in, rtype)
       IN /\ call' = [call EXCEPT ![p] =
                 [NoCall EXCEPT !.op = "reflectiveHandler.Handle", !.ctx = ctx, !.in = in,
                                !.rtype = rtype, !.handler = method.of]]
          /\ trace' = [trace EXCEPT ![p] =
                 IF r.invoked THEN <<Invoked("handler", method.of.id, ctx, in)>> ELSE <<>>]
          /\ result' = [result EXCEPT ![p] =
                 [kind |-> r.kind, response |-> r.response, err |-> r.err]]
    /\ UNCHANGED <<handlers, handlerMutex, eventHandlers, eventHandlerMutex,
                   middlewareBuilder, pc, loc>>

\* response, err := createReflectiveHandler[Response](handleMethod).Handle(ctx, in)
sendHandle(p) ==
    /\ pc[p] = "send_handle"
    /\ LET r == reflectiveHandle(loc[p].value, call[p].ctx, loc[p].in, call[p].rtype)
       IN /\ trace' = [trace EXCEPT ![p] =
                 IF r.invoked
                 THEN Append(@, Invoked("handler", loc[p].value.id, call[p].ctx, loc[p].in))
                 ELSE @]
          /\ IF r.kind = "panic"
             THEN Panic(p, r.err[1])
             ELSE /\ loc' = [loc EXCEPT ![p].response = r.response, ![p].err = r.err]
                  /\ pc' = [pc EXCEPT ![p] = "send_post"]
                  /\ UNCHANGED result
    /\ UNCHANGED <<handlers, handlerMutex, eventHandlers, eventHandlerMutex,
                   middlewareBuilder, call>>

\* executePostMiddlewares(ctx, in, handlerName) is entered: the list is read;
\* with no post-middleware send returns response, err
sendPost(p) ==
    /\ pc[p] = "send_post"
    /\ LET list == chainOf(middlewareBuilder.postMiddlewares, loc[p].name)
       IN IF list = <<>>
          THEN Return(p, loc[p].response, loc[p].err)
          ELSE /\ loc' = [loc EXCEPT ![p].list = list, ![p].i = 1,
                                     ![p].ctx = call[p].ctx]
               /\ pc' = [pc EXCEPT ![p] = "send_post_mw"]
               /\ UNCHANGED result
    /\ UNCHANGED <<handlers, handlerMutex, eventHandlers, eventHandlerMutex,
                   middlewareBuilder, call, trace>>

\* ctx, request, chain = m.middlewareFunc(ctx, request) in executePostMiddlewares;
\* when the loop is left send returns response, err
sendPostMiddleware(p) ==
    /\ pc[p] = "send_post_mw"
    /\ LET l == chainStep(loc[p])
           f == loc[p].list[loc[p].i].middlewareFunc
       IN /\ trace' = [trace EXCEPT ![p] =
                 Append(@, Invoked("post", f.id, loc[p].ctx, loc[p].in))]
          /\ IF Panics(f)
             THEN Panic(p, f.id)
             ELSE IF chainEnds(l)
             THEN Return(p, loc[p].response, loc[p].err)
             ELSE /\ loc' = [loc EXCEPT ![p] = l]
                  /\ pc' = [pc EXCEPT ![p] = "send_post_mw"]
                  /\ UNCHANGED result
    /\ UNCHANGED <<handlers, handlerMutex, eventHandlers, eventHandlerMutex,
                   middlewareBuilder, call>>

(***************************************************************************)
(* AddEventHandlers and PublishEvent.                                      *)
(***************************************************************************)
\* the call: typedEvent is computed from the type argument
AddEventHandlers(p, tevent, hs) ==
    /\ Begin(p, [NoCall EXCEPT !.op = "AddEventHandlers", !.tevent = tevent, !.hs = hs],
             [NoLoc EXCEPT !.typed = tevent], "addev_lock")
    /\ UNCHANGED <<handlers, handlerMutex, eventHandlers, eventHandlerMutex,
                   middlewareBuilder>>

\* loadOrStoreEventHandlers: eventHandlerMutex.Lock()
AddEventHandlersLock(p) ==
    /\ pc[p] = "addev_lock"
    /\ CanLock(eventHandlerMutex)
    /\ eventHandlerMutex' = [eventHandlerMutex EXCEPT !.w = p]
    /\ pc' = [pc EXCEPT ![p] = "addev_load"]
    /\ UNCHANGED <<handlers, handlerMutex, eventHandlers, middlewareBuilder,
                   call, loc, trace, result>>

\* loadOrStoreEventHandlers's body: the map it leaves and the slice it returns
loadOrStoreEventHandlers(m, typedEvent) ==
    IF Has(m, typedEvent)
    THEN [m |-> m, handlers |-> m[typedEvent]]
    ELSE [m |-> Put(m, typedEvent, <<>>), handlers |-> <<>>]

\* loadOrStoreEventHandlers: the body, then the deferred Unlock()
AddEventHandlersLoad(p) ==
    /\ pc[p] = "addev_load"
    /\ LET r == loadOrStoreEventHandlers(eventHandlers, loc[p].typed)
       IN /\ eventHandlers' = r.m
          /\ loc' = [loc EXCEPT ![p].list = r.handlers]
    /\ eventHandlerMutex' = Unlocked
    /\ pc' = [pc EXCEPT ![p] = "addev_store"]
    /\ UNCHANGED <<handlers, handlerMutex, middlewareBuilder, call, trace, result>>

\* a check that never finds the name
neverInEventHandlers(typeName, registeredHandlers) == FALSE

checkTypeNameInEventHandlers(typeName, registeredHandlers) ==
    \E i \in DOMAIN registeredHandlers : registeredHandlers[i].typeName = typeName

\* newEventHandlerWrapper(handler, typedHandlerName) in an eventHandlersType
eventHandlersType(handler) == [typeName |-> handler.name, eventHandler |-> handler]

\* the loop of AddEventHandlers over its arguments, from registeredHandlers
RECURSIVE mergeEventHandlers(_, _)
mergeEventHandlers(registeredHandlers, hs) ==
    IF hs = <<>> THEN registeredHandlers
    ELSE mergeEventHandlers(
            IF ~checkTypeNameInEventHandlers(Head(hs).name, registeredHandlers)
            THEN Append(registeredHandlers, eventHandlersType(Head(hs)))
            ELSE registeredHandlers,
            Tail(hs))

\* the loop, then eventHandlers[typedEvent] = registeredHandlers; return nil
AddEventHandlersStore(p) ==
    /\ pc[p] = "addev_store"
    /\ eventHandlers' = Put(eventHandlers, loc[p].typed,
                            mergeEventHandlers(loc[p].list, call[p].hs))
    /\ Return(p, NilResponse, NoErr)
    /\ UNCHANGED <<handlers, handlerMutex, eventHandlerMutex, middlewareBuilder,
                   call, trace>>

\* the call: typedEvent := strings.TrimPrefix(reflect.TypeOf(event).String(), "*"),
\* which panics on a nil event
PublishEvent(p, ctx, event) ==
    /\ Begin(p, [NoCall EXCEPT !.op = "PublishEvent", !.ctx = ctx, !.in = event],
             [NoLoc EXCEPT !.typed = TrimPrefix(TypeOf(event)), !.ctx = ctx, !.in = event],
             IF event = Nil THEN "pub_nil" ELSE "pub_load")
    /\ UNCHANGED <<handlers, handlerMutex, eventHandlers, eventHandlerMutex,
                   middlewareBuilder>>

PublishEventNil(p) ==
    /\ pc[p] = "pub_nil"
    /\ Panic(p, "nil pointer dereference")
    /\ UNCHANGED <<handlers, handlerMutex, eventHandlers, eventHandlerMutex,
                   middlewareBuilder, call, trace>>

\* what PublishEvent returns for the collected handlerErrors
publishResult(handlerErrors) == handlerErrors

\* a lookup that goes through loadOrStoreEventHandlers, as the registration does
eventHandlersAfterLoadOrStore(m, typedEvent) == loadOrStoreEventHandlers(m, typedEvent).m

\* the map after registeredEventHandlers, ok := eventHandlers[typedEvent]: the
\* two-value read of a missing key adds no entry
eventHandlersAfterLookup(m, typedEvent) == m

\* registeredEventHandlers, ok := eventHandlers[typedEvent], read without the
\* mutex; PublishEvent panics when the key is not found, and returns nil when
\* the list is empty
PublishEventLoad(p) ==
    /\ pc[p] = "pub_load"
    /\ IF ~Has(eventHandlers, loc[p].typed)
       THEN Panic(p, "no handler found")
       ELSE IF eventHandlers[loc[p].typed] = <<>>
       THEN Return(p, NilResponse, publishResult(<<>>))
       ELSE /\ loc' = [loc EXCEPT ![p].list = eventHandlers[loc[p].typed], ![p].i = 1]
            /\ pc' = [pc EXCEPT ![p] = "pub_handle"]
            /\ UNCHANGED result
    /\ eventHandlers' = eventHandlersAfterLookup(eventHandlers, loc[p].typed)
    /\ UNCHANGED <<handlers, handlerMutex, eventHandlerMutex,
                   middlewareBuilder, call, trace>>

\* a wrapper that gives up on a cancelled context
wrapperHandleUnlessDone(e, ctx, in) ==
    IF Err(ctx) # NoErr
    THEN [invoked |-> FALSE, err |-> Err(ctx)]
    ELSE IF TypeOf(in) # e.ev
    THEN [invoked |-> FALSE, err |-> Errorf("incorrect request type")]
    ELSE [invoked |-> TRUE, err |-> HandleEventOf(e, ctx, in)]

\* handlerWrapper.Handle(ctx, in) of an event entry: the type assertion
\* in.(TEvent), then the adapter's call of the event handler
wrapperHandle(e, ctx, in) ==
    IF TypeOf(in) # e.ev
    THEN [invoked |-> FALSE, err |-> Errorf("incorrect request type")]
    ELSE [invoked |-> TRUE, err |-> HandleEventOf(e, ctx, in)]

\* a loop that keeps the latest error only
collectLatest(handlerErrors, err) == IF err # NoErr THEN err ELSE handlerErrors

\* handlerErrors after one turn of the loop
collect(handlerErrors, err) == IF err # NoErr THEN handlerErrors \o err ELSE handlerErrors

\* a turn that first runs the pre-middlewares stored under the handler's name
eventInvocationsThroughChain(e, ctx, in) ==
    LET list == chainOf(middlewareBuilder.preMiddlewares, e.name)
    IN [i \in DOMAIN list |-> Invoked("pre", list[i].middlewareFunc.id, ctx, in)]
       \o <<Invoked("event", e.id, ctx, in)>>

\* the caller code one turn of the loop invokes: the event handler, when the
\* wrapper's type assertion lets the event through, and nothing else
eventInvocations(e, ctx, in) ==
    IF wrapperHandle(e, ctx, in).invoked THEN <<Invoked("event", e.id, ctx, in)>> ELSE <<>>

\* one turn of the loop: _, err := eventHandler.eventHandler.Handle(ctx, event);
\* after the last turn PublishEvent returns errors.Join(handlerErrors...) or nil
PublishEventHandle(p) ==
    /\ pc[p] = "pub_handle"
    /\ LET e == loc[p].list[loc[p].i].eventHandler
           r == wrapperHandle(e, call[p].ctx, call[p].in)
           errs == collect(loc[p].err, r.err)
       IN /\ trace' = [trace EXCEPT ![p] =
                 @ \o eventInvocations(e, call[p].ctx, call[p].in)]
          /\ IF r.invoked /\ Panics(e)
             THEN Panic(p, e.id)
             ELSE IF loc[p].i = Len(loc[p].list)
             THEN Return(p, NilResponse, publishResult(errs))
             ELSE /\ loc' = [loc EXCEPT ![p].i = @ + 1, ![p].err = errs]
                  /\ pc' = [pc EXCEPT ![p] = "pub_handle"]
                  /\ UNCHANGED result
    /\ UNCHANGED <<handlers, handlerMutex, eventHandlers, eventHandlerMutex,
                   middlewareBuilder, call>>

(***************************************************************************)
(* Specifications.                                                         *)
(***************************************************************************)
Contexts == {Ctx("c1"), Ctx("c2")}
Requests(p) == {Value(K1, p), Value(K2, p), Nil}
ResponseTypes == {"R1", "R2"}

\* the steps of goroutine p in the dispatch engine
Dispatch(p) ==
    \/ \E h \in {H1, H2} : addRequest(p, "AddCommandHandler", h)
    \/ addRequest(p, "AddQueryHandler", H3)
    \/ addRequestLock(p)
    \/ addRequestStore(p)
    \/ addRequestCurrent(p)
    \/ \E f \in PreFuncs : PreMiddleware(p, f)
    \/ PreMiddlewareRead(p)
    \/ PreMiddlewareWrite(p)
    \/ \E f \in PostFuncs : PostMiddleware(p, f)
    \/ PostMiddlewareRead(p)
    \/ PostMiddlewareWrite(p)
    \/ \E in \in Requests(p), t \in ResponseTypes :
          \/ send(p, "SendCommand", Ctx("c1"), in, t)
          \/ send(p, "SendQuery", Ctx("c1"), in, t)
    \/ sendNil(p)
    \/ sendRLock(p)
    \/ sendLoad(p)
    \/ sendPre(p)
    \/ sendPreMiddleware(p)
    \/ sendHandle(p)
    \/ sendPost(p)
    \/ sendPostMiddleware(p)

\* one goroutine: calls never overlap
Next == Dispatch(1)
Spec == Init /\ [][Next]_vars

\* the argument lists of one AddEventHandlers[t] call
RECURSIVE SeqsUpTo(_, _)
SeqsUpTo(S, n) ==
    IF n = 0 THEN {<<>>}
    ELSE LET shorter == SeqsUpTo(S, n - 1)
         IN shorter \cup {Append(s, x) : s \in shorter, x \in S}
EventTypes == {K1, K2}
Events(p) == {Value(K1, p), Value(PtrK1, p), Value(K2, p), Nil}

\* the steps of goroutine p in the event bus
Bus(p) ==
    \/ \E t \in EventTypes : \E hs \in SeqsUpTo(EventHandlersOf(t), MaxEventArgs) :
          AddEventHandlers(p, t, hs)
    \/ AddEventHandlersLock(p)
    \/ AddEventHandlersLoad(p)
    \/ AddEventHandlersStore(p)
    \/ \E event \in Events(p) : PublishEvent(p, Ctx("c1"), event)
    \/ PublishEventNil(p)
    \/ PublishEventLoad(p)
    \/ PublishEventHandle(p)

NextEvents == Bus(1)
SpecEvents == Init /\ [][NextEvents]_vars

\* Concurrent dispatch: registration is done first, by one goroutine at a time
\* (the setup phase); then the goroutines dispatch concurrently
CtxOf(p) == Ctx(IF p = 1 THEN "c1" ELSE "c2")
Registering(p) ==
    pc[p] \in {"add_lock", "add_store", "add_current",
               "pre_read", "pre_write", "post_read", "post_write"}
Setup(p) ==
    /\ \A q \in Procs : pc[q] = "idle" /\ call[q].op \notin {"SendCommand", "SendQuery"}
    /\ \/ \E h \in {H1, H2} : addRequest(p, "AddCommandHandler", h)
       \/ \E f \in {MwA, MwB} : PreMiddleware(p, f)
       \/ PostMiddleware(p, MwA)
SetupStep(p) ==
    \/ addRequestLock(p)
    \/ addRequestStore(p)
    \/ addRequestCurrent(p)
    \/ PreMiddlewareRead(p)
    \/ PreMiddlewareWrite(p)
    \/ PostMiddlewareRead(p)
    \/ PostMiddlewareWrite(p)
ConcurrentSend(p) ==
    \/ /\ \A q \in Procs : ~Registering(q)
       /\ \E t \in ResponseTypes : send(p, "SendCommand", CtxOf(p), Value(K1, p), t)
    \/ sendRLock(p)
    \/ sendLoad(p)
    \/ sendPre(p)
    \/ sendPreMiddleware(p)
    \/ sendHandle(p)
    \/ sendPost(p)
    \/ sendPostMiddleware(p)

\* the goroutines of the concurrent dispatch
Senders == {1, 2}
NextConcurrent == \E p \in Senders : Setup(p) \/ SetupStep(p) \/ ConcurrentSend(p)
SpecConcurrent == Init /\ [][NextConcurrent]_vars

\* Type keys: the same shape is registered, dispatched and published both as
\* a value type (K1) and as a pointer type (*K1)
H5 == Handler("h5", "*H5", PtrK1, "R1", FALSE)
E5 == EventHandler("e5", "*E5", PtrK1, FALSE)
\* an event handler whose type name reads like H1's (a type H1 of another
\* package of the same package name): middleware lists are keyed by that name
E6 == EventHandler("e6", "*H1", K1, FALSE)
KeyShapes == {K1, PtrK1}
KeyedEventHandlers(t) == IF t = K1 THEN {<<>>, <<E1>>} ELSE {<<>>, <<E5>>}

\* the steps of goroutine p: registrations and calls of both shapes
Keys(p) ==
    \/ \E h \in {H1, H5} : addRequest(p, "AddCommandHandler", h)
    \/ addRequestLock(p)
    \/ addRequestStore(p)
    \/ addRequestCurrent(p)
    \/ \E t \in KeyShapes : send(p, "SendCommand", Ctx("c1"), Value(t, p), "R1")
    \/ sendRLock(p)
    \/ sendLoad(p)
    \/ sendPre(p)
    \/ sendHandle(p)
    \/ sendPost(p)
    \/ \E t \in KeyShapes : \E hs \in KeyedEventHandlers(t) : AddEventHandlers(p, t, hs)
    \/ AddEventHandlersLock(p)
    \/ AddEventHandlersLoad(p)
    \/ AddEventHandlersStore(p)
    \/ \E t \in KeyShapes \cup {K2} : PublishEvent(p, Ctx("c1"), Value(t, p))
    \/ PublishEventLoad(p)
    \/ PublishEventHandle(p)

NextKeys == Keys(1)
SpecKeys == Init /\ [][NextKeys]_vars

\* Registration concurrent with calls: goroutine 1 registers while goroutine 2
\* dispatches and publishes.  The middleware builder has no lock, so
\* its registrations are made only while no dispatch is running.
InBuilder(p) == pc[p] \in {"pre_read", "pre_write", "post_read", "post_write"}

\* goroutine q is at a write of the eventHandlers map: the store of a new key
\* in loadOrStoreEventHandlers, or AddEventHandlers' final assignment
WritesEventMap(q) ==
    \/ pc[q] = "addev_load" /\ ~Has(eventHandlers, loc[q].typed)
    \/ pc[q] = "addev_store"

\* PublishEvent's unlocked read of eventHandlers overlaps a write of the map by
\* another goroutine: besides reading the map as it was before or after the
\* write (PublishEventLoad on either side of the writer's step), the runtime
\* may stop the process with "fatal error: concurrent map read and map write"
PublishEventRace(p) ==
    /\ pc[p] = "pub_load"
    /\ \E q \in Procs \ {p} : WritesEventMap(q)
    /\ pc' = [q \in Procs |-> "dead"]
    /\ loc' = [q \in Procs |-> NoLoc]
    /\ result' = [q \in Procs |->
                    [kind |-> "fatal", response |-> NilResponse,
                     err |-> Errorf("concurrent map read and map write")]]
    /\ UNCHANGED <<handlers, handlerMutex, eventHandlers, eventHandlerMutex,
                   middlewareBuilder, call, trace>>

Registrar(p) ==
    \/ \E h \in {H1, H2} : addRequest(p, "AddCommandHandler", h)
    \/ addRequestLock(p)
    \/ addRequestLockWait(p)
    \/ addRequestStore(p)
    \/ addRequestCurrent(p)
    \/ /\ \A q \in Procs \ {p} : pc[q] = "idle"
       /\ \/ PreMiddleware(p, MwA)
          \/ PostMiddleware(p, MwA)
    \/ PreMiddlewareRead(p)
    \/ PreMiddlewareWrite(p)
    \/ PostMiddlewareRead(p)
    \/ PostMiddlewareWrite(p)
    \/ \E hs \in {<<E1>>, <<E2>>, <<E6>>} : AddEventHandlers(p, K1, hs)
    \/ AddEventHandlersLock(p)
    \/ AddEventHandlersLoad(p)
    \/ AddEventHandlersStore(p)

Caller(p) ==
    \/ /\ \A q \in Procs \ {p} : ~InBuilder(q)
       /\ \E ctx \in {CtxOf(p), CanceledCtx} :
             \/ send(p, "SendCommand", ctx, Value(K1, p), "R1")
             \/ PublishEvent(p, ctx, Value(K1, p))
    \/ sendRLock(p)
    \/ sendLoad(p)
    \/ sendPre(p)
    \/ sendPreMiddleware(p)
    \/ sendHandle(p)
    \/ sendPost(p)
    \/ sendPostMiddleware(p)
    \/ PublishEventLoad(p)
    \/ PublishEventHandle(p)
    \/ PublishEventRace(p)

NextRace == Registrar(1) \/ Caller(2)
SpecRace == Init /\ [][NextRace]_vars

\* Scheduling: a goroutine inside a call keeps running (weak fairness of its
\* steps); sync.RWMutex hands the lock to a goroutine blocked in Lock or RLock
\* (a blocked writer holds back later readers, and a mutex in starvation mode
\* is handed to its oldest waiter), hence strong fairness of the acquisitions.
\* Nothing obliges a caller to start a call.
RaceStep(p) ==
    \/ addRequestLock(p)
    \/ addRequestLockWait(p)
    \/ addRequestStore(p)
    \/ addRequestCurrent(p)
    \/ PreMiddlewareRead(p)
    \/ PreMiddlewareWrite(p)
    \/ PostMiddlewareRead(p)
    \/ PostMiddlewareWrite(p)
    \/ AddEventHandlersLock(p)
    \/ AddEventHandlersLoad(p)
    \/ AddEventHandlersStore(p)
    \/ sendRLock(p)
    \/ sendLoad(p)
    \/ sendPre(p)
    \/ sendPreMiddleware(p)
    \/ sendHandle(p)
    \/ sendPost(p)
    \/ sendPostMiddleware(p)
    \/ PublishEventLoad(p)
    \/ PublishEventHandle(p)
FairRace ==
    \A p \in {1, 2} :
        /\ WF_vars(RaceStep(p))
        /\ SF_vars(addRequestLock(p))
        /\ SF_vars(AddEventHandlersLock(p))
        /\ SF_vars(sendRLock(p))
SpecRaceFair == SpecRace /\ FairRace

\* reflectiveHandler.Handle on its own: every method, context, request and
\* response type of the bounded sets
Methods == {Method(h) : h \in {NoHandler, H1, H2, H3}}
HandleContexts == {NilCtx, Ctx("c1"), Ctx("c2"), CanceledCtx}
Inputs == {Nil, Value(K1, 1), Value(K1, 2), Value(K2, 1), Value(PtrK1, 1)}
NextReflective ==
    \E method \in Methods, ctx \in HandleContexts, in \in Inputs, rtype \in ResponseTypes :
        reflectiveCall(1, method, ctx, in, rtype)
SpecReflective == Init /\ [][NextReflective]_vars

\* Event registrations against each other: goroutines 1 and 2 call
\* AddEventHandlers for the same event type, goroutine 3 publishes.
\* AddEventHandlers' final assignment is made outside the mutex: when it
\* overlaps another access to the map, the accesses may take effect in either
\* order (the steps on either side), or the runtime may stop the process with
\* "fatal error: concurrent map writes"
AddEventHandlersRace(p) ==
    /\ pc[p] = "addev_store"
    /\ \E q \in Procs \ {p} : pc[q] \in {"addev_load", "addev_store"}
    /\ pc' = [q \in Procs |-> "dead"]
    /\ loc' = [q \in Procs |-> NoLoc]
    /\ result' = [q \in Procs |->
                    [kind |-> "fatal", response |-> NilResponse,
                     err |-> Errorf("concurrent map writes")]]
    /\ UNCHANGED <<handlers, handlerMutex, eventHandlers, eventHandlerMutex,
                   middlewareBuilder, call, trace>>
EventRegistrars == {1, 2}
EventRegistrar(p) ==
    \/ \E hs \in {<<E1>>, <<E2>>} : AddEventHandlers(p, K1, hs)
    \/ AddEventHandlersLock(p)
    \/ AddEventHandlersLoad(p)
    \/ AddEventHandlersStore(p)
    \/ AddEventHandlersRace(p)
Publisher(p) ==
    \/ PublishEvent(p, CtxOf(p), Value(K1, p))
    \/ PublishEventLoad(p)
    \/ PublishEventHandle(p)
    \/ PublishEventRace(p)
\* Handler names against keys: one goroutine registers, for K1, handlers of the
\* type *H1 and a handler of another type, and for K2 a handler whose type is
\* of another package but has the same reflect.Type.String() as *H1 (String()
\* shortens package paths and is not unique among types); it adds middleware
\* and dispatches
H4 == Handler("h4", "*H4", K1, "R1", FALSE)
H8 == Handler("h8", "*H1", K2, "R2", FALSE)
Naming(p) ==
    \/ \E h \in {H1, H2, H4, H8} : addRequest(p, "AddCommandHandler", h)
    \/ addRequestLock(p)
    \/ addRequestStore(p)
    \/ addRequestCurrent(p)
    \/ \E f \in {MwA, MwC} : PreMiddleware(p, f)
    \/ PreMiddlewareRead(p)
    \/ PreMiddlewareWrite(p)
    \/ PostMiddleware(p, MwA)
    \/ PostMiddlewareRead(p)
    \/ PostMiddlewareWrite(p)
    \/ send(p, "SendCommand", Ctx("c1"), Value(K1, p), "R1")
    \/ send(p, "SendCommand", Ctx("c1"), Value(K2, p), "R2")
    \/ sendRLock(p)
    \/ sendLoad(p)
    \/ sendPre(p)
    \/ sendPreMiddleware(p)
    \/ sendHandle(p)
    \/ sendPost(p)
    \/ sendPostMiddleware(p)
NextNames == Naming(1)
SpecNames == Init /\ [][NextNames]_vars

\* Instances against types: goroutine 1 registers instances for K1, some of
\* them of one Go type (e1 and e1b), in one call or in several; once it is
\* done goroutine 2 publishes K1 events
Published2 == call[2].op = "PublishEvent"
Instances(p) ==
    \/ /\ ~Published2
       /\ \E hs \in SeqsUpTo({E1, E1b, E2}, MaxEventArgs) \ {<<>>} :
             AddEventHandlers(p, K1, hs)
    \/ AddEventHandlersLock(p)
    \/ AddEventHandlersLoad(p)
    \/ AddEventHandlersStore(p)
Publishes(p) ==
    \/ /\ pc[1] = "idle" /\ call[1].op = "AddEventHandlers"
       /\ PublishEvent(p, CtxOf(p), Value(K1, p))
    \/ PublishEventLoad(p)
    \/ PublishEventHandle(p)
NextInstances == Instances(1) \/ Publishes(2)
SpecInstances == Init /\ [][NextInstances]_vars

\* Middleware registrations against each other and against a dispatch:
\* goroutine 1 registers h1, then goroutines 1 and 2 add middleware through the
\* builder while goroutine 3 dispatches.  The builder's maps have no lock: a
\* write of a map that overlaps another access to the same map may take effect
\* before or after it (the steps on either side), or the runtime may stop the
\* process with "fatal error: concurrent map read and map write" / "concurrent
\* map writes"
AccessesPre(q) == pc[q] \in {"pre_read", "pre_write", "send_pre"}
AccessesPost(q) == pc[q] \in {"post_read", "post_write", "send_post"}
MiddlewareRace(p) ==
    /\ \/ pc[p] = "pre_write" /\ \E q \in Procs \ {p} : AccessesPre(q)
       \/ pc[p] = "post_write" /\ \E q \in Procs \ {p} : AccessesPost(q)
    /\ pc' = [q \in Procs |-> "dead"]
    /\ loc' = [q \in Procs |-> NoLoc]
    /\ result' = [q \in Procs |->
                    [kind |-> "fatal", response |-> NilResponse,
                     err |-> Errorf("concurrent map access")]]
    /\ UNCHANGED <<handlers, handlerMutex, eventHandlers, eventHandlerMutex,
                   middlewareBuilder, call, trace>>
Builders == {1, 2}
Builder(p) ==
    \/ /\ p = 1 /\ handlers = EmptyMap
       /\ addRequest(p, "AddCommandHandler", H1)
    \/ addRequestLock(p)
    \/ addRequestStore(p)
    \/ addRequestCurrent(p)
    \/ \E f \in {MwA, MwC} : PreMiddleware(p, f)
    \/ PreMiddlewareRead(p)
    \/ PreMiddlewareWrite(p)
    \/ \E f \in {MwA, MwC} : PostMiddleware(p, f)
    \/ PostMiddlewareRead(p)
    \/ PostMiddlewareWrite(p)
    \/ MiddlewareRace(p)
Dispatcher(p) ==
    \/ Has(handlers, K1) /\ send(p, "SendCommand", CtxOf(p), Value(K1, p), "R1")
    \/ sendRLock(p)
    \/ sendLoad(p)
    \/ sendPre(p)
    \/ sendPreMiddleware(p)
    \/ sendHandle(p)
    \/ sendPost(p)
    \/ sendPostMiddleware(p)
NextBuilders == (\E p \in Builders : Builder(p)) \/ Dispatcher(3)
SpecBuilders == Init /\ [][NextBuilders]_vars

NextRegistrars == (\E p \in EventRegistrars : EventRegistrar(p)) \/ Publisher(3)
SpecRegistrars == Init /\ [][NextRegistrars]_vars

\* Lookups against a registration: goroutine 1 registers handlers for K1 while
\* goroutines 2 and 3 dispatch K1 requests
Lookups == {2, 3}
Registration(p) ==
    \/ \E h \in {H1, H2} : addRequest(p, "AddCommandHandler", h)
    \/ addRequestLock(p)
    \/ addRequestLockWait(p)
    \/ addRequestStore(p)
    \/ addRequestCurrent(p)
Lookup(p) ==
    \/ send(p, "SendCommand", CtxOf(p), Value(K1, p), "R1")
    \/ sendRLock(p)
    \/ sendLoad(p)
    \/ sendPre(p)
    \/ sendHandle(p)
    \/ sendPost(p)

NextLock == Registration(1) \/ \E p \in Lookups : Lookup(p)
SpecLock == Init /\ [][NextLock]_vars
\* the same scheduling for the registration and the lookups of SpecLock
FairLock ==
    \A p \in Procs :
        /\ WF_vars(RaceStep(p))
        /\ SF_vars(addRequestLock(p))
        /\ SF_vars(sendRLock(p))
SpecLockFair == SpecLock /\ FairLock

\* Panicking caller code: one goroutine registers handlers, middleware and
\* event handlers, some of which panic, and dispatches and publishes
Crashing(p) ==
    \/ \E h \in {H1, H7} : addRequest(p, "AddCommandHandler", h)
    \/ addRequestLock(p)
    \/ addRequestStore(p)
    \/ addRequestCurrent(p)
    \/ \E f \in {MwA, MwP} : PreMiddleware(p, f)
    \/ PreMiddlewareRead(p)
    \/ PreMiddlewareWrite(p)
    \/ \E f \in {MwA, MwP} : PostMiddleware(p, f)
    \/ PostMiddlewareRead(p)
    \/ PostMiddlewareWrite(p)
    \/ \E h \in {H1, H7} : send(p, "SendCommand", Ctx("c1"), Value(h.req, p), h.resp)
    \/ sendRLock(p)
    \/ sendLoad(p)
    \/ sendPre(p)
    \/ sendPreMiddleware(p)
    \/ sendHandle(p)
    \/ sendPost(p)
    \/ sendPostMiddleware(p)
    \/ \E e \in {E1, E7} : AddEventHandlers(p, K1, <<e>>)
    \/ AddEventHandlersLock(p)
    \/ AddEventHandlersLoad(p)
    \/ AddEventHandlersStore(p)
    \/ PublishEvent(p, Ctx("c1"), Value(K1, p))
    \/ PublishEventLoad(p)
    \/ PublishEventHandle(p)

NextPanic == Crashing(1)
SpecPanic == Init /\ [][NextPanic]_vars

\* Commands beside queries: goroutine 1 registers handlers of both kinds and
\* middleware; then goroutine 1 sends a command and goroutine 2 a query, with
\* the same context and the same request
KindOf(p) == IF p = 1 THEN "SendCommand" ELSE "SendQuery"
Dispatched == \E q \in Procs : call[q].op \in {"SendCommand", "SendQuery"}
KindsSetup(p) ==
    /\ \A q \in Procs : pc[q] = "idle"
    /\ ~Dispatched
    /\ \/ \E kind \in {"AddCommandHandler", "AddQueryHandler"} :
             \E h \in {H1, H2} : addRequest(p, kind, h)
       \/ \E f \in {MwA, MwB} : PreMiddleware(p, f)
       \/ PostMiddleware(p, MwA)
KindsSend(p) ==
    \/ /\ \A q \in Procs : ~Registering(q)
       /\ \E t \in ResponseTypes : send(p, KindOf(p), Ctx("c1"), Value(K1, 0), t)
    \/ sendRLock(p)
    \/ sendLoad(p)
    \/ sendPre(p)
    \/ sendPreMiddleware(p)
    \/ sendHandle(p)
    \/ sendPost(p)
    \/ sendPostMiddleware(p)

NextKinds == KindsSetup(1) \/ SetupStep(1) \/ \E p \in Senders : KindsSend(p)
SpecKinds == Init /\ [][NextKinds]_vars

\* Builders kept by the caller: b := AddCommandHandler(h) returns
\* &middlewareBuilder, the one builder of the package, and the caller calls
\* b.PreMiddleware(f) or b.PostMiddleware(f) later, maybe after other
\* registrations; call.handler records the h whose registration returned b
\* MockMiddlewareFunc(continueChain): a closure of the one function literal of
\* the factory, which returns its arguments and the captured flag
MockMiddlewareFunc(continueChain) ==
    Middleware(IF continueChain THEN "mock_true" ELSE "mock_false",
               "MockMiddlewareFunc.func1", continueChain, "same", "same")
BuilderFuncs == {MwA, MwB, MwC, MockMiddlewareFunc(TRUE), MockMiddlewareFunc(FALSE)}
Returned(h) == Has(handlers, h.req) /\ handlers[h.req].Handler = h
PreMiddlewareOn(p, h, f) ==
    /\ Returned(h)
    /\ StoredMiddlewares < MaxMiddlewares
    /\ Begin(p, [NoCall EXCEPT !.op = "PreMiddleware", !.fn = f, !.handler = h],
             [NoLoc EXCEPT !.name = FuncName(f)], "pre_read")
    /\ UNCHANGED <<handlers, handlerMutex, eventHandlers, eventHandlerMutex,
                   middlewareBuilder>>
PostMiddlewareOn(p, h, f) ==
    /\ Returned(h)
    /\ StoredMiddlewares < MaxMiddlewares
    /\ Begin(p, [NoCall EXCEPT !.op = "PostMiddleware", !.fn = f, !.handler = h],
             [NoLoc EXCEPT !.name = FuncName(f)], "post_read")
    /\ UNCHANGED <<handlers, handlerMutex, eventHandlers, eventHandlerMutex,
                   middlewareBuilder>>

Building(p) ==
    \/ addRequest(p, "AddCommandHandler", H1)
    \/ addRequest(p, "AddQueryHandler", H3)
    \/ \E kind \in {"AddCommandHandler", "AddQueryHandler"} : addRequestNil(p, kind)
    \/ addRequestNilPanic(p)
    \/ addRequestLock(p)
    \/ addRequestStore(p)
    \/ addRequestCurrent(p)
    \/ \E h \in {H1, H3} : \E f \in BuilderFuncs : PreMiddlewareOn(p, h, f)
    \/ PreMiddlewareRead(p)
    \/ PreMiddlewareWrite(p)
    \/ \E h \in {H1, H3} : \E f \in {MwA, MwB, MwC} : PostMiddlewareOn(p, h, f)
    \/ PostMiddlewareRead(p)
    \/ PostMiddlewareWrite(p)

NextBuilder == Building(1)
SpecBuilder == Init /\ [][NextBuilder]_vars

(***************************************************************************)
(* The claims.                                                             *)
(***************************************************************************)
\* goroutine p has finished a call of one of the kinds ops
Finished(p, ops) == pc[p] = "idle" /\ call[p].op \in ops /\ result[p].kind # "none"
Sends == {"SendCommand", "SendQuery"}
\* the invocations of one kind in the trace of p, in order
Of(p, kind) == SelectSeq(trace[p], LAMBDA e : e.kind = kind)
Ids(events) == [i \in DOMAIN events |-> events[i].id]
\* the pre-list and the post-list stored for a handler name
PreList(name) == chainOf(middlewareBuilder.preMiddlewares, name)
PostList(name) == chainOf(middlewareBuilder.postMiddlewares, name)
FuncIds(list) == [i \in DOMAIN list |-> list[i].middlewareFunc.id]

EntryOf(p) == handlers[TypeOf(call[p].in)]
PreListOf(p) == PreList(EntryOf(p).Name)
Resolved(p) == Finished(p, Sends) /\ Has(handlers, TypeOf(call[p].in))
Unresolved(p) ==
    Finished(p, Sends) /\ call[p].in # Nil /\ ~Has(handlers, TypeOf(call[p].in))

\* C2: a SendCommand/SendQuery of a request whose type key has no registered
\* handler panics with "no handler found": it returns neither a response nor
\* an error value to its caller, and it invokes no handler and no pre- or
\* post-middleware.
C2_PanicsWhenNotFound ==
    \A p \in Procs :
        Unresolved(p) =>
            /\ result[p].kind = "panic"
            /\ result[p].err = Errorf("no handler found")
            /\ trace[p] = <<>>

\* C2 as stated: the dispatch returns an error value with the zero response
C2_ReturnsNotFound ==
    \A p \in Procs :
        Unresolved(p) =>
            /\ result[p].kind = "return"
            /\ result[p].err # NoErr
            /\ result[p].response = Zero(call[p].rtype)
            /\ trace[p] = <<>>

\* a K2 request was dispatched with no handler for K2, while K1 has a handler
\* with a pre-middleware
C2_Witness ==
    /\ Unresolved(1)
    /\ TypeOf(call[1].in) = K2
    /\ Has(handlers, K1) /\ PreList(handlers[K1].Name) # <<>>
    /\ result[1].kind = "panic"

\* the C3 case: the pre-list of the dispatched handler is [A, B, C], A returns
\* chain = true and B returns chain = false
C3_Case(p) ==
    /\ Resolved(p)
    /\ Len(PreListOf(p)) = 3
    /\ PreListOf(p)[1].middlewareFunc.cont
    /\ ~PreListOf(p)[2].middlewareFunc.cont
\* the request B returns in that dispatch
C3_FromB(p) ==
    LET a == CallMiddleware(PreListOf(p)[1].middlewareFunc, call[p].ctx, call[p].in)
    IN CallMiddleware(PreListOf(p)[2].middlewareFunc, a.ctx, a.request).request

Names(list) == {list[i].middlewareName : i \in DOMAIN list}
NoDuplicate(list) ==
    \A i, j \in DOMAIN list : list[i].middlewareName = list[j].middlewareName => i = j
IsPrefix(s, t) == Len(s) <= Len(t) /\ SubSeq(t, 1, Len(s)) = s
\* how often the dispatch of p invoked the pre-middleware with this id
TimesRun(p, id) == Cardinality({i \in DOMAIN Of(p, "pre") : Of(p, "pre")[i].id = id})

\* every pre-list and every post-list holds each middleware name at most once
C6_Unique ==
    /\ \A h \in DOMAIN middlewareBuilder.preMiddlewares :
          NoDuplicate(middlewareBuilder.preMiddlewares[h])
    /\ \A h \in DOMAIN middlewareBuilder.postMiddlewares :
          NoDuplicate(middlewareBuilder.postMiddlewares[h])
\* a dispatch runs each entry of the pre-list once, as far as the chain gets
C6_Once ==
    \A p \in Procs :
        Resolved(p) =>
            \A i \in DOMAIN PreListOf(p) :
                TimesRun(p, PreListOf(p)[i].middlewareFunc.id) =
                    IF Len(Of(p, "pre")) >= i THEN 1 ELSE 0
\* a PreMiddleware/PostMiddleware call with a name its list holds changes nothing
C6_ReAdd ==
    \A p \in Procs :
        LET cur == middlewareBuilder.currentHandlerName
            name == FuncName(call[p].fn)
        IN /\ pc[p] = "pre_write" /\ pc'[p] = "idle"
              /\ name \in Names(PreList(cur))
              => middlewareBuilder' = middlewareBuilder
           /\ pc[p] = "post_write" /\ pc'[p] = "idle"
              /\ name \in Names(PostList(cur))
              => middlewareBuilder' = middlewareBuilder

\* C6: after any sequence of PreMiddleware/PostMiddleware calls a middleware
\* name occurs at most once in each pre-list and at most once in each
\* post-list; adding a name the list already holds leaves the list as it was;
\* and a dispatch executes a pre-middleware registered twice under one name
\* exactly once (the chain reaching it).
C6_MiddlewareIdempotence == [](C6_Unique /\ C6_Once) /\ [][C6_ReAdd]_vars

\* PreMiddleware was called with A on a handler whose pre-list began with A
\* and held a second entry: the list was left as it was
C6_Witness ==
    /\ Finished(1, {"PreMiddleware"})
    /\ call[1].fn = MwA
    /\ FuncIds(PreList(middlewareBuilder.currentHandlerName)) = <<"a", "c">>

Adds == {"AddCommandHandler", "AddQueryHandler"}
\* a finished registration has stored its handler under the handler's key
C7_Stored ==
    \A p \in Procs :
        Finished(p, Adds) =>
            /\ result[p].kind = "return" /\ result[p].err = NoErr
            /\ Has(handlers, call[p].handler.req)
            /\ handlers[call[p].handler.req] =
                  newHandlerWrapper(call[p].handler, call[p].handler.name)
\* a dispatch reaches the handler registered last for its key, or, the key
\* never registered, finds nothing
C7_Reached ==
    \A p \in Procs :
        /\ Resolved(p) =>
              \A i \in DOMAIN Of(p, "handler") :
                  Of(p, "handler")[i].id = EntryOf(p).Handler.id
        /\ Unresolved(p) => result[p].err = Errorf("no handler found")
\* the registry changes only in the store of a registration, which sets the
\* entry of its key and leaves every other key as it was
C7_Replace ==
    handlers' # handlers =>
        \E p \in Procs :
            /\ pc[p] = "add_store"
            /\ DOMAIN handlers' = DOMAIN handlers \cup {call[p].handler.req}
            /\ handlers'[call[p].handler.req].Handler = call[p].handler
            /\ \A k \in DOMAIN handlers \ {call[p].handler.req} :
                  handlers'[k] = handlers[k]

\* C7: registering a command/query handler for a key that has an entry
\* replaces the entry and is not an error: the registry holds one entry per
\* key, that of the last registration; a key never registered is not found;
\* and a dispatch after the second registration reaches the later handler only.
C7_LastWriteWins == [](C7_Stored /\ C7_Reached) /\ [][C7_Replace]_vars

\* the registration of h2 has replaced the entry of h1
C7_Witness ==
    /\ Finished(1, Adds)
    /\ call[1].handler = H2
    /\ Ids(trace[1]) = <<"h1">>
    /\ handlers[K1].Handler = H2

Rank(kind) == IF kind = "pre" THEN 1 ELSE IF kind = "handler" THEN 2 ELSE 3
\* in the trace of a dispatch the pre-middlewares come first and in the order
\* of the pre-list, then the handler, then the post-middlewares in the order
\* of the post-list
C9_TraceOrder ==
    \A p \in Procs :
        call[p].op \in Sends /\ Has(handlers, TypeOf(call[p].in)) =>
            /\ \A i, j \in DOMAIN trace[p] :
                  i < j => Rank(trace[p][i].kind) <= Rank(trace[p][j].kind)
            /\ IsPrefix(Ids(Of(p, "pre")), FuncIds(PreListOf(p)))
            /\ IsPrefix(Ids(Of(p, "post")), FuncIds(PostList(EntryOf(p).Name)))
\* a list is in the order its middlewares were added: it grows at its end only
C9_AddedAtEnd ==
    /\ \A h \in DOMAIN middlewareBuilder.preMiddlewares :
          IsPrefix(middlewareBuilder.preMiddlewares[h],
                   middlewareBuilder'.preMiddlewares[h])
    /\ \A h \in DOMAIN middlewareBuilder.postMiddlewares :
          IsPrefix(middlewareBuilder.postMiddlewares[h],
                   middlewareBuilder'.postMiddlewares[h])

\* C9: within one dispatch the executed pre-middlewares run in the order they
\* were added and before the handler, the handler before every
\* post-middleware, and the post-middlewares in the order they were added.
C9_Sequential == []C9_TraceOrder /\ [][C9_AddedAtEnd]_vars

\* a dispatch ran two pre-middlewares, the handler and a post-middleware
C9_Witness ==
    /\ Finished(1, Sends)
    /\ [i \in DOMAIN trace[1] |-> trace[1][i].kind] = <<"pre", "pre", "handler", "post">>
    /\ Ids(trace[1]) = <<"c", "a", "h1", "a">>

\* what the pre-middleware before position i of the trace returned
C10_Before(p, i) ==
    CallMiddleware(PreListOf(p)[i - 1].middlewareFunc,
                   Of(p, "pre")[i - 1].ctx, Of(p, "pre")[i - 1].request)

\* C10: the first pre-middleware receives the caller's context and request,
\* each later one the context and request the one before it returned, and the
\* handler, when it is invoked, the request the last pre-middleware that ran
\* returned (the caller's request when none ran); it is invoked whenever that
\* request is not nil and of the handler's request type.
C10_PreChainThreading ==
    \A p \in Procs :
        call[p].op \in Sends /\ Has(handlers, TypeOf(call[p].in)) =>
            LET pre == Of(p, "pre")
                last == IF pre = <<>> THEN call[p].in
                        ELSE C10_Before(p, Len(pre) + 1).request
            IN /\ \A i \in DOMAIN pre :
                    IF i = 1
                    THEN pre[i].ctx = call[p].ctx /\ pre[i].request = call[p].in
                    ELSE /\ pre[i].ctx = C10_Before(p, i).ctx
                         /\ pre[i].request = C10_Before(p, i).request
               /\ \A i \in DOMAIN Of(p, "handler") :
                    Of(p, "handler")[i].request = last
               /\ Finished(p, Sends) /\ last # Nil
                  /\ TypeOf(last) = EntryOf(p).Handler.req
                  => Len(Of(p, "handler")) = 1

\* A got the caller's context and request, B the context A derived and the
\* request A marked, the handler the request B marked
C10_Witness ==
    /\ Finished(1, Sends)
    /\ Ids(trace[1]) = <<"a", "b", "h1">>
    /\ trace[1][1].ctx = Ctx("c1") /\ trace[1][1].request = call[1].in
    /\ trace[1][2].ctx = <<"c1", "A">> /\ trace[1][2].request.marks = <<"A">>
    /\ trace[1][3].request.marks = <<"A", "B">>

\* the handlers a finished PublishEvent of p found for the type of its event
Published(p) ==
    Finished(p, {"PublishEvent"}) /\ Has(eventHandlers, TypeOf(call[p].in))
FoundFor(p) == eventHandlers[TypeOf(call[p].in)]
\* the errors of the failing handlers of a list, in its order
RECURSIVE ErrorsOf(_)
ErrorsOf(list) ==
    IF list = <<>> THEN <<>>
    ELSE (IF Head(list).eventHandler.fails
          THEN Errorf(Head(list).eventHandler.id) ELSE <<>>) \o ErrorsOf(Tail(list))
Failing(list) == {i \in DOMAIN list : list[i].eventHandler.fails}

FirstOf(hs, name) == CHOOSE i \in DOMAIN hs : hs[i].name = name /\ \A j \in 1..(i - 1) : hs[j].name # name
TypeNames(list) == {list[i].typeName : i \in DOMAIN list}
\* every list of the event registry holds each handler name at most once
C8_Unique ==
    \A k \in DOMAIN eventHandlers :
        \A i, j \in DOMAIN eventHandlers[k] :
            eventHandlers[k][i].typeName = eventHandlers[k][j].typeName => i = j
\* a finished AddEventHandlers call returned nil
C8_NoError ==
    \A p \in Procs :
        Finished(p, {"AddEventHandlers"}) =>
            result[p].kind = "return" /\ result[p].err = NoErr
\* the store of an AddEventHandlers call keeps the list it found and appends,
\* in the order of their first occurrence among the arguments, the handlers
\* whose names the list did not hold; arguments all held already change nothing
C8_Merge ==
    \A p \in Procs :
        pc[p] = "addev_store" /\ pc'[p] = "idle" =>
            LET k == call[p].tevent
                hs == call[p].hs
                old == eventHandlers[k]
                new == eventHandlers'[k]
                added == SubSeq(new, Len(old) + 1, Len(new))
            IN /\ IsPrefix(old, new)
               /\ TypeNames(new) = TypeNames(old) \cup {hs[i].name : i \in DOMAIN hs}
               /\ \A i \in DOMAIN added :
                     /\ added[i].typeName \notin TypeNames(old)
                     /\ added[i].eventHandler = hs[FirstOf(hs, added[i].typeName)]
                     /\ \A j \in DOMAIN added :
                           i < j => FirstOf(hs, added[i].typeName)
                                       < FirstOf(hs, added[j].typeName)
               /\ \A x \in DOMAIN eventHandlers \ {k} : eventHandlers'[x] = eventHandlers[x]
               /\ {hs[i].name : i \in DOMAIN hs} \subseteq TypeNames(old)
                  => eventHandlers' = eventHandlers

\* C8: after any sequence of non-overlapping AddEventHandlers calls the list
\* of each event key holds each handler name at most once, in the order of
\* first registration; a handler whose name the list already holds, given in
\* the same call or in a later one, changes nothing and is not an error.
C8_OrderedSet == [](C8_Unique /\ C8_NoError) /\ [][C8_Merge]_vars

\* a call given a second instance of E1's type and then E2 has left the list
\* E1, E2: the instance was ignored because E1's name was held
C8_Witness ==
    /\ Finished(1, {"AddEventHandlers"})
    /\ call[1].hs = <<E1b, E2>>
    /\ eventHandlers[K1] = <<eventHandlersType(E1), eventHandlersType(E2)>>

\* the request the pre-chain of a list hands to the handler
RECURSIVE RunChain(_, _, _)
RunChain(list, ctx, in) ==
    IF list = <<>> THEN in
    ELSE LET r == CallMiddleware(Head(list).middlewareFunc, ctx, in)
         IN IF r.chain THEN RunChain(Tail(list), r.ctx, r.request) ELSE r.request
\* the response and the error the handler gives for the request of p
OwnResponse(p) ==
    HandleOf(EntryOf(p).Handler, call[p].ctx, RunChain(PreListOf(p), call[p].ctx, call[p].in))
AfterHandle(p) == pc[p] \in {"send_post", "send_post_mw"}

\* C5: concurrent dispatches of one registered request type each return the
\* response the handler computes from their own request, with the handler's
\* error (nil when the handler does not fail); every handler and middleware
\* invoked for a call is given that call's request and context, never those
\* of another call in flight.
C5_Isolation ==
    \A p \in Procs :
        call[p].op \in Sends /\ Has(handlers, TypeOf(call[p].in)) =>
            /\ \A i \in DOMAIN trace[p] :
                  /\ trace[p][i].request.pay = call[p].in.pay
                  /\ Head(trace[p][i].ctx) = Head(call[p].ctx)
            /\ AfterHandle(p) /\ call[p].rtype = EntryOf(p).Handler.resp =>
                  /\ loc[p].response = OwnResponse(p).response
                  /\ loc[p].err = OwnResponse(p).err
            /\ Finished(p, Sends) =>
                  /\ result[p].kind = "return"
                  /\ call[p].rtype = EntryOf(p).Handler.resp =>
                        /\ result[p].response = OwnResponse(p).response
                        /\ result[p].response.of.pay = p
                        /\ result[p].err = OwnResponse(p).err
                        /\ ~EntryOf(p).Handler.fails => result[p].err = NoErr

\* both goroutines are in flight, and one has returned before: each has the
\* response of its own request
C5_Witness ==
    /\ Finished(1, Sends)
    /\ result[1].response.of.pay = 1 /\ result[1].err = NoErr
    /\ AfterHandle(2)
    /\ loc[2].response.of.pay = 2 /\ loc[2].err = NoErr
    /\ Len(Of(1, "pre")) = 2 /\ Len(Of(2, "pre")) = 2

\* the part of a list a chain runs: up to the first middleware that stops it
RECURSIVE UpToStop(_)
UpToStop(list) ==
    IF list = <<>> THEN <<>>
    ELSE IF Head(list).middlewareFunc.cont THEN <<Head(list)>> \o UpToStop(Tail(list))
    ELSE <<Head(list)>>
\* the dispatch of p has returned after it invoked the handler
Handled(p) == Resolved(p) /\ result[p].kind = "return" /\ Of(p, "handler") # <<>>
\* what the handler returned to the invocation the dispatch of p made
Produced(p) ==
    HandleOf(EntryOf(p).Handler, Of(p, "handler")[1].ctx, Of(p, "handler")[1].request)
Converts(p) == call[p].rtype = EntryOf(p).Handler.resp
PostListOf(p) == PostList(EntryOf(p).Name)

\* C11: the response and the error a dispatch returns are those the handler
\* invocation produced (those of the Handle call when the handler was not
\* invoked for a nil request), whatever the post-middlewares return; the
\* post-chain is given the caller's context and the request handed to the
\* handler, and a post-middleware returning chain = false only skips the
\* post-middlewares after it.
C11_PostChainDiscarded ==
    \A p \in Procs :
        Resolved(p) /\ result[p].kind = "return" =>
            /\ Handled(p) /\ Converts(p) =>
                  /\ result[p].response = Produced(p).response
                  /\ result[p].err = Produced(p).err
            /\ ~Handled(p) =>
                  /\ result[p].response = Zero(call[p].rtype)
                  /\ result[p].err = Errorf("reflectiveHandler: invalid or nil request")
            /\ Ids(Of(p, "post")) = FuncIds(UpToStop(PostListOf(p)))
            /\ Of(p, "post") # <<>> =>
                  /\ Of(p, "post")[1].ctx = call[p].ctx
                  /\ Of(p, "post")[1].request =
                        RunChain(PreListOf(p), call[p].ctx, call[p].in)

\* two post-middlewares ran, the first returned another request and another
\* context, the second stopped the chain: the caller got the handler's response
C11_Witness ==
    /\ Handled(1)
    /\ Ids(Of(1, "post")) = <<"a", "b">>
    /\ Of(1, "post")[2].request # Of(1, "post")[1].request
    /\ Of(1, "post")[2].ctx # Of(1, "post")[1].ctx
    /\ result[1].response = Response("R1", "h1", call[1].in)
    /\ result[1].err = NoErr

\* C12: when the handler returns a non-nil error the dispatch returns that
\* same error to its caller, after the post-middleware chain has run.
C12_HandlerErrorUnchanged ==
    \A p \in Procs :
        Handled(p) /\ Produced(p).err # NoErr =>
            /\ result[p].err = Produced(p).err
            /\ Ids(Of(p, "post")) = FuncIds(UpToStop(PostListOf(p)))

\* C13: when the value the handler returned is not of the response type the
\* caller asked for, the dispatch returns the zero response with the non-nil
\* error "error in result conversion", never with a nil error.
C13_MismatchIsAnError ==
    \A p \in Procs :
        Resolved(p) /\ Of(p, "handler") # <<>> /\ ~Converts(p) =>
            /\ result[p].kind = "return"
            /\ result[p].err # NoErr
            /\ result[p].err = Errorf("reflectiveHandler: error in result conversion")
            /\ result[p].response = Zero(call[p].rtype)

\* the handler of K1 returned an R1 without error to a caller that asked for R2
C13_Witness ==
    /\ Handled(1)
    /\ EntryOf(1).Handler = H1 /\ call[1].rtype = "R2"
    /\ result[1].err # NoErr

\* the key a PublishEvent of p looked up, and the two ways it has no handler
KeyOf(p) == TrimPrefix(TypeOf(call[p].in))
PublishedTo(p) == Finished(p, {"PublishEvent"}) /\ call[p].in # Nil
NeverRegistered(p) == PublishedTo(p) /\ ~Has(eventHandlers, KeyOf(p))
EmptyEntry(p) ==
    PublishedTo(p) /\ Has(eventHandlers, KeyOf(p)) /\ eventHandlers[KeyOf(p)] = <<>>

C15_NoHandlersIsAnError ==
    \A p \in Procs :
        NeverRegistered(p) \/ EmptyEntry(p) =>
            /\ result[p].err # NoErr
            /\ ~(result[p].kind = "return" /\ result[p].err = NoErr)

\* a send of p ended with the "no handler found" panic
NotFound(p) == result[p].kind = "panic" /\ result[p].err = Errorf("no handler found")

\* C16: SendCommand of a request whose key has no handler, and PublishEvent of
\* an event whose type has no handler (its key missing or its entry empty),
\* abort by panicking: no value is returned to the caller.
C16_AbortByPanicking ==
    \A p \in Procs :
        /\ Unresolved(p) => NotFound(p)
        /\ NeverRegistered(p) \/ EmptyEntry(p) => NotFound(p)

\* some registered key names the shape of the request, or of the event, of p
ShapeRegistered(m, p) ==
    \E k \in DOMAIN m : TrimPrefix(k) = TrimPrefix(TypeOf(call[p].in))

\* C17: a handler registered for a shape is resolved when a value of the shape
\* and when a pointer to it is dispatched or published: the lookup never ends
\* with "no handler found" while a key of that shape is registered.
C17_KeyIgnoresPointer ==
    \A p \in Procs :
        /\ Finished(p, Sends) /\ ShapeRegistered(handlers, p) => ~NotFound(p)
        /\ PublishedTo(p) /\ ShapeRegistered(eventHandlers, p) => ~NotFound(p)

\* goroutine p holds mutex mu, exclusively or shared
Holds(mu, p) == mu.w = p \/ p \in mu.r
\* the next step of p runs caller-supplied code: a middleware of either chain,
\* a handler, or an event handler
RunsCallerCode(p) ==
    pc[p] \in {"send_pre_mw", "send_handle", "send_post_mw", "pub_handle"}

\* C18: while a handler or a middleware executes on behalf of a dispatch or a
\* publish, the calling goroutine holds neither handlerMutex nor
\* eventHandlerMutex.
C18_NoLockAcrossCallerCode ==
    \A p \in Procs :
        RunsCallerCode(p) => ~Holds(handlerMutex, p) /\ ~Holds(eventHandlerMutex, p)

\* a pre-middleware of goroutine 2 is about to run after its lookup, while the
\* registrar holds handlerMutex exclusively
C18_Witness ==
    /\ pc[2] = "send_pre_mw"
    /\ loc[2].value \in {H1, H2}
    /\ handlerMutex.w = 1
    /\ pc[1] = "add_store"

AddsHandler == {"AddCommandHandler", "AddQueryHandler"}
\* goroutine q is registering, or has registered, a handler under key k
RegistersKey(q, k) == call[q].op \in AddsHandler /\ call[q].handler.req = k
\* the registration of q has returned
Registered(q) == Finished(q, AddsHandler) /\ result[q].kind = "return"
\* goroutine p takes the step of its lookup, the read inside getMapValue
LooksUp(p) == pc[p] = "send_load" /\ pc'[p] # "send_load"
\* what the lookup of p left in its locals: the handler of the entry, or
\* nothing when the call panicked
FoundBy(p) == IF pc'[p] = "send_pre" THEN loc'[p].value ELSE NoHandler
\* the handler registered under k before the write of q
Previous(k) == IF Has(handlers, k) THEN handlers[k].Handler ELSE NoHandler

\* the write of a registration and the read of a lookup exclude each other:
\* the reader is in the shared section with no writer, the writer in the
\* exclusive section with no reader
C19_Exclusion ==
    \A p \in Procs :
        /\ pc[p] = "send_load" => handlerMutex.w = 0 /\ p \in handlerMutex.r
        /\ pc[p] = "add_store" => handlerMutex.w = p /\ handlerMutex.r = {}
\* every entry of the registry is a complete wrapper
C19_Complete ==
    \A k \in DOMAIN handlers :
        /\ handlers[k].Handler \in {H1, H2}
        /\ handlers[k].Handler.req = k
        /\ handlers[k].Name = handlers[k].Handler.name
\* a lookup next to a registration of its key finds the entry from before the
\* write while the write is not done, and the new entry once it is done
C19_BeforeOrAfter ==
    \A p, q \in Procs :
        LooksUp(p) /\ q # p /\ RegistersKey(q, loc[p].typed) =>
            IF pc[q] \in {"add_lock", "add_store"}
            THEN FoundBy(p) = Previous(loc[p].typed) /\ handlers' = handlers
            ELSE FoundBy(p) = call[q].handler
\* a lookup made after the registration returned finds the new entry
C19_AfterReturn ==
    \A p, q \in Procs :
        LooksUp(p) /\ q # p /\ RegistersKey(q, loc[p].typed) /\ Registered(q) =>
            FoundBy(p) = call[q].handler

\* C19: a lookup of SendCommand/SendQuery concurrent with a registration for
\* its key finds the state before the registration or the complete new entry,
\* never a partial write, and a lookup after the registration has returned
\* finds the new entry.
C19_AtomicRegistration ==
    /\ [](C19_Exclusion /\ C19_Complete)
    /\ [][C19_BeforeOrAfter /\ C19_AfterReturn]_vars

\* the lookup of goroutine 2 waited for the shared section while the registrar
\* replaced h1 by h2, and found h2 before the registration returned
C19_Witness ==
    /\ pc[2] = "send_pre"
    /\ loc[2].value = H2
    /\ pc[1] = "add_current"
    /\ call[1].handler = H2
    /\ Of(1, "replaced") # <<>>
    /\ Of(1, "replaced")[1].id = "h1"

\* goroutine p is at a read of the eventHandlers map
ReadsEventMap(p) ==
    \/ pc[p] = "pub_load"
    \/ pc[p] = "addev_load" /\ Has(eventHandlers, loc[p].typed)

\* C20: every access to the event-handler registry follows the reader/writer
\* discipline: AddEventHandlers reads and writes the event map inside the
\* exclusive section of eventHandlerMutex, PublishEvent looks it up inside the
\* shared section, and no write to the map overlaps another access.
C20_EventRegistryDiscipline ==
    /\ \A p \in Procs :
          /\ pc[p] \in {"addev_load", "addev_store"} => eventHandlerMutex.w = p
          /\ pc[p] = "pub_load" => p \in eventHandlerMutex.r
    /\ \A p, q \in Procs :
          p # q /\ WritesEventMap(p) => ~ReadsEventMap(q) /\ ~WritesEventMap(q)
    /\ \A p \in Procs : result[p].kind # "fatal"

\* goroutine p is at mutex.RLock() of its lookup
AtRLock(p) == pc[p] = "send_rlock"
\* a registration holds handlerMutex exclusively, or is blocked in Lock()
WriterHolds == handlerMutex.w # 0
WriterWaits == handlerMutex.waiting # {}

\* C21: a dispatch's lookup enters the shared section of handlerMutex whenever
\* no registration holds it or is blocked in Lock(), however many lookups of
\* other dispatches are inside; when it has to wait, a registration holds the
\* exclusive section or is waiting for it.
C21_LookupsWaitOnlyForRegistrations ==
    \A p \in Procs :
        AtRLock(p) =>
            /\ ~WriterHolds /\ ~WriterWaits => ENABLED sendRLock(p)
            /\ ~ENABLED sendRLock(p) =>
                  \E q \in Procs \ {p} :
                      /\ call[q].op \in AddsHandler
                      /\ \/ pc[q] = "add_store" /\ handlerMutex.w = q
                         \/ pc[q] = "add_lock" /\ q \in handlerMutex.waiting

\* C21 as stated: with only lookups inside, the lookup can enter
C21_EntersBesideLookups ==
    \A p \in Procs :
        AtRLock(p) /\ ~WriterHolds => ENABLED sendRLock(p)

\* two lookups are inside the shared section at once, and a registration
\* that arrived after them waits
C21_Witness ==
    /\ handlerMutex.r = {2, 3}
    /\ pc[2] = "send_load" /\ pc[3] = "send_load"
    /\ handlerMutex.waiting = {1}

\* the entries of the list PublishEvent found whose handler was invoked
Ran(p) ==
    SelectSeq(eventHandlers[KeyOf(p)],
              LAMBDA x : \E i \in DOMAIN Of(p, "event") :
                            Of(p, "event")[i].id = x.eventHandler.id)

\* C22: PublishEvent returns nil exactly when none of the handlers it invoked
\* returned an error; otherwise the error it returns is made of the errors of
\* the invoked handlers, in the order of their invocation, which is the order
\* of their registration.
C22_NilIffNoHandlerError ==
    \A p \in Procs :
        PublishedTo(p) /\ Has(eventHandlers, KeyOf(p)) =>
            /\ result[p].kind = "return"
            /\ Ids(Of(p, "event")) = [i \in DOMAIN Ran(p) |-> Ran(p)[i].eventHandler.id]
            /\ result[p].err = NoErr <=> Failing(Ran(p)) = {}
            /\ result[p].err = ErrorsOf(Ran(p))

\* the handler ids of the list PublishEvent of p looked up
ListIds(p) ==
    {eventHandlers[KeyOf(p)][i].eventHandler.id : i \in DOMAIN eventHandlers[KeyOf(p)]}
\* PublishEvent of p is running or has ended
Publishing(p) == call[p].op = "PublishEvent"

\* C23: whatever the middleware lists hold, PublishEvent invokes no pre- and no
\* post-middleware: everything it invokes is an event handler registered for
\* the event's key.
C23_NoMiddlewareOnEvents ==
    \A p \in Procs :
        Publishing(p) =>
            \A i \in DOMAIN trace[p] :
                /\ trace[p][i].kind = "event"
                /\ Has(eventHandlers, KeyOf(p))
                /\ trace[p][i].id \in ListIds(p)

\* a publish has invoked e6 and nothing else and goes on to its next handler,
\* while a pre- and a post-middleware are stored under e6's type name
C23_Witness ==
    /\ pc[2] = "pub_handle"
    /\ loc[2].i = 2
    /\ Ids(trace[2]) = <<"e6">>
    /\ PreList(E6.name) # <<>>
    /\ PostList(E6.name) # <<>>

\* the handler ids of the first n entries of an event list
FirstIds(list, n) == [i \in 1..n |-> list[i].eventHandler.id]

\* C24: the handler and each event handler are invoked with exactly the
\* context the caller passed, whatever the pre-middlewares returned, and the
\* sequence of invocations is the one the registry determines, whether the
\* caller's context is cancelled or live: the whole pre-chain up to its first
\* stop, the handler, the whole post-chain up to its first stop; and one event
\* handler per turn of PublishEvent's loop.
C24_SameContext ==
    \A p \in Procs :
        /\ \A i \in DOMAIN trace[p] :
              trace[p][i].kind \in {"handler", "event"} => trace[p][i].ctx = call[p].ctx
        /\ pc[p] \in {"send_handle", "send_post", "send_post_mw"} =>
              Ids(Of(p, "pre")) = FuncIds(UpToStop(PreList(loc[p].name)))
        /\ pc[p] \in {"send_post", "send_post_mw"} => Ids(Of(p, "handler")) = <<loc[p].value.id>>
        /\ pc[p] = "pub_handle" => Ids(trace[p]) = FirstIds(loc[p].list, loc[p].i - 1)
\* the step in which a dispatch returns leaves the whole sequence in its trace,
\* and the step in which a publish returns has invoked the last handler
C24_WholeSequence ==
    \A p \in Procs :
        /\ pc[p] \in {"send_post", "send_post_mw"} /\ pc'[p] = "idle" =>
              /\ result'[p].kind = "return"
              /\ Ids(trace'[p]) =
                    FuncIds(UpToStop(PreList(loc[p].name))) \o <<loc[p].value.id>>
                    \o FuncIds(UpToStop(PostList(loc[p].name)))
        /\ pc[p] = "pub_handle" /\ pc'[p] = "idle" =>
              /\ result'[p].kind = "return"
              /\ Ids(trace'[p]) = FirstIds(loc[p].list, Len(loc[p].list))
C24_CancellationTransparent ==
    []C24_SameContext /\ [][C24_WholeSequence]_vars

\* a dispatch with the cancelled context ran the pre-middleware, which derived
\* a context, then the handler with the caller's context, then the
\* post-middleware
C24_Witness ==
    /\ Finished(2, Sends)
    /\ call[2].ctx = CanceledCtx
    /\ Ids(trace[2]) = <<"a", "h1", "a">>
    /\ trace[2][2].ctx = CanceledCtx
    /\ CallMiddleware(MwA, trace[2][1].ctx, trace[2][1].request).ctx = <<"canceled", "A">>

\* the invocations of caller code in the trace of p
CallerCode == {"pre", "handler", "post", "event"}
\* position i of the trace of p is an invocation that panicked
Panicked(p, i) ==
    trace[p][i].kind \in CallerCode /\ trace[p][i].id \in {H7.id, E7.id, MwP.id}

\* the call in which caller code panicked has ended with that panic, not with a
\* return, and the panicking invocation is the last thing it did
C25_Propagates ==
    \A p \in Procs :
        \A i \in DOMAIN trace[p] :
            Panicked(p, i) =>
                /\ i = Len(trace[p])
                /\ pc[p] = "idle"
                /\ result[p].kind = "panic"
                /\ result[p].err = Errorf(trace[p][i].id)
\* no step of a dispatch or a publish changes the registry, and the step that
\* ends in a panic leaves both mutexes free
C25_RegistryKept ==
    \A p \in Procs :
        call'[p].op \in Sends \cup {"PublishEvent"} =>
            /\ UNCHANGED <<handlers, eventHandlers, middlewareBuilder>>
            /\ result'[p].kind = "panic" =>
                  handlerMutex' = Unlocked /\ eventHandlerMutex' = Unlocked

\* C25: a panic raised inside a handler, a middleware or an event handler is
\* neither caught nor turned into an error value: the call ends with the
\* panic, nothing that would have followed runs, and the registry is as it was.
C25_PanicsPropagate ==
    []C25_Propagates /\ [][C25_RegistryKept]_vars

\* the pre-chain [A, P] panicked in P: A and P ran, the registered handler and
\* the post-middleware did not
C25_Witness ==
    /\ Finished(1, Sends)
    /\ Ids(trace[1]) = <<"a", "p">>
    /\ result[1].kind = "panic"
    /\ Has(handlers, TypeOf(call[1].in))
    /\ PostList(handlers[TypeOf(call[1].in)].Name) # <<>>

\* a command and a query with equal arguments have both ended
BothEnded ==
    /\ Finished(1, {"SendCommand"}) /\ Finished(2, {"SendQuery"})
    /\ call[1].ctx = call[2].ctx /\ call[1].in = call[2].in
    /\ call[1].rtype = call[2].rtype
\* they made the same invocations and ended with the same result
C26_SameOutcome == BothEnded => trace[1] = trace[2] /\ result[1] = result[2]
\* a finished registration of either kind has its handler under the request type
C26_OneKeySpace ==
    \A p \in Procs :
        Registered(p) =>
            /\ Has(handlers, call[p].handler.req)
            /\ handlers[call[p].handler.req] =
                  newHandlerWrapper(call[p].handler, call[p].handler.name)
\* the write of a registration of either kind replaces the entry of the request
\* type, whatever kind of registration made that entry, and no other entry
C26_SameStore ==
    \A p \in Procs :
        pc[p] = "add_store" /\ pc'[p] # "add_store" =>
            /\ handlers' = Put(handlers, call[p].handler.req,
                               newHandlerWrapper(call[p].handler, call[p].handler.name))
            /\ Of(p, "replaced")' =
                  <<Invoked("replaced", Previous(call[p].handler.req).id, <<>>, Nil)>>

NamesOf(list) == {list[i].middlewareName : i \in DOMAIN list}
\* a finished call on the builder of a handler has its middleware in that
\* handler's list
C27_InOwnList ==
    \A p \in Procs :
        /\ Finished(p, {"PreMiddleware"}) =>
              FuncName(call[p].fn) \in NamesOf(PreList(call[p].handler.name))
        /\ Finished(p, {"PostMiddleware"}) =>
              FuncName(call[p].fn) \in NamesOf(PostList(call[p].handler.name))
\* a call on the builder of a handler changes no other handler's list
C27_NoOtherList ==
    \A p \in Procs :
        call'[p].op \in {"PreMiddleware", "PostMiddleware"} =>
            \A name \in {H1.name, H3.name} \ {call'[p].handler.name} :
                PreList(name)' = PreList(name) /\ PostList(name)' = PostList(name)

\* C27: a PreMiddleware/PostMiddleware call made on the builder that the
\* registration of handler H returned adds the middleware to H's list and to
\* no other handler's list, whichever handlers were registered in between.
C27_BuilderOfItsHandler ==
    []C27_InOwnList /\ [][C27_NoOtherList]_vars

\* the handler the builder points at
Current == middlewareBuilder.currentHandlerName
\* the list is the old one, or the old one with the middleware of p at its end
KeptOrAppended(new, old, p) ==
    \/ new = old
    \/ /\ new = Append(old, middlewareStruct(call[p].fn))
       /\ FuncName(call[p].fn) \notin NamesOf(old)
\* the map is changed at most in the list of the current handler
OnlyCurrent(new, old, p) ==
    /\ DOMAIN new \subseteq DOMAIN old \cup {Current}
    /\ \A name \in DOMAIN old \ {Current} : name \in DOMAIN new /\ new[name] = old[name]
    /\ KeptOrAppended(chainOf(new, Current), chainOf(old, Current), p)

\* the write of PreMiddleware changes the pre-list of the current handler and
\* nothing else, the write of PostMiddleware its post-list and nothing else
C28_Frame ==
    \A p \in Procs :
        /\ pc[p] = "pre_write" /\ pc'[p] = "idle" =>
              /\ middlewareBuilder'.postMiddlewares = middlewareBuilder.postMiddlewares
              /\ OnlyCurrent(middlewareBuilder'.preMiddlewares,
                             middlewareBuilder.preMiddlewares, p)
        /\ pc[p] = "post_write" /\ pc'[p] = "idle" =>
              /\ middlewareBuilder'.preMiddlewares = middlewareBuilder.preMiddlewares
              /\ OnlyCurrent(middlewareBuilder'.postMiddlewares,
                             middlewareBuilder.postMiddlewares, p)
\* a finished PostMiddleware has its middleware in the post-list of the current
\* handler, and a finished PreMiddleware in its pre-list, whatever the other
\* list of the handler holds
C28_Stored ==
    \A p \in Procs :
        /\ Finished(p, {"PostMiddleware"}) => FuncName(call[p].fn) \in NamesOf(PostList(Current))
        /\ Finished(p, {"PreMiddleware"}) => FuncName(call[p].fn) \in NamesOf(PreList(Current))

\* C28: the pre-list and the post-list of a handler are independent:
\* PreMiddleware changes only the current handler's pre-list and PostMiddleware
\* only its post-list, each deduplicates against its own list alone, so that
\* one name may be in both, and no other handler's lists change.
C28_IndependentLists ==
    []C28_Stored /\ [][C28_Frame]_vars

\* PostMiddleware(A) has just put A into the post-list of h1's handler, whose
\* pre-list held A already, while h3's handler has another pre-list
C28_Witness ==
    /\ Finished(1, {"PostMiddleware"})
    /\ call[1].fn = MwA
    /\ Current = H1.name
    /\ NamesOf(PreList(H1.name)) = {"A"}
    /\ NamesOf(PostList(H1.name)) = {"A"}
    /\ NamesOf(PreList(H3.name)) = {"B"}
    /\ PostList(H3.name) = <<>>

\* C29: the identity that deduplicates middleware does not depend on closure
\* capture: a middleware function added to the current handler is in its list
\* when the call has returned, also when another closure of the same function
\* literal (one continuing, one stopping the chain) was added before; only the
\* same function added again is ignored.
C29_EveryClosureStored ==
    \A p \in Procs :
        Finished(p, {"PreMiddleware"}) =>
            \E i \in DOMAIN PreList(Current) :
                PreList(Current)[i].middlewareFunc.id = call[p].fn.id

\* the registration of p was given a malformed handler
Malformed(p) == call[p].op \in Adds /\ call[p].handler = NilHandler
\* no entry of the registry holds the malformed handler
NotStored == \A k \in DOMAIN handlers : handlers[k].Handler # NilHandler
\* C30: a registration call given a malformed handler (one without the Handle
\* method) returns an InvalidRegistration error value to its caller and leaves
\* the registry as it was: the handler is not stored to be discovered when a
\* request is dispatched to it.
C30_InvalidRegistrationReported ==
    /\ NotStored
    /\ \A p \in Procs :
          Malformed(p) /\ Finished(p, Adds) =>
              /\ result[p].kind = "return"
              /\ result[p].err = Errorf("InvalidRegistration")

\* the names registered for the event type
EventNames(t) ==
    IF Has(eventHandlers, t)
    THEN {eventHandlers[t][i].typeName : i \in DOMAIN eventHandlers[t]}
    ELSE {}
\* the names the AddEventHandlers call of p was given
GivenNames(p) == {call[p].hs[i].name : i \in DOMAIN call[p].hs}
\* C31: two AddEventHandlers calls that run concurrently for one event type,
\* each with a differently named handler, leave both handlers registered once
\* both have returned: no interleaving of their steps loses an addition.
C31_NoLostAddition ==
    \A p \in EventRegistrars :
        (\A q \in EventRegistrars : Finished(q, {"AddEventHandlers"}))
            => GivenNames(p) \subseteq EventNames(call[p].tevent)

\* the names in the list the call of p adds to
OwnList(p) ==
    IF call[p].op = "PreMiddleware" THEN NamesOf(PreList(Current))
    ELSE NamesOf(PostList(Current))
\* C32: middleware registration is safe under concurrency: when the concurrent
\* PreMiddleware (or PostMiddleware) calls on one handler have returned, the
\* middleware of each is in the list, and no registration that overlaps another
\* registration or a dispatch ends the process.
C32_MiddlewareRegistrationSafe ==
    /\ \A p \in Procs : result[p].kind # "fatal"
    /\ \A p \in Builders :
          (\A q \in Builders : Finished(q, {"PreMiddleware", "PostMiddleware"}))
              => FuncName(call[p].fn) \in OwnList(p)

\* what the map stores under the name, nothing when it stores no list
StoredUnder(m, name) == IF name \in DOMAIN m THEN m[name] ELSE <<>>
\* a finished dispatch of p ran the whole pre-list and the whole post-list that
\* are stored under the name of the entry of its key (the middleware of this
\* specification all continue the chain)
C33_ListsOfEntryName ==
    \A p \in Procs :
        Resolved(p) /\ result[p].kind = "return" =>
            /\ Ids(Of(p, "pre")) =
                  FuncIds(StoredUnder(middlewareBuilder.preMiddlewares, EntryOf(p).Name))
            /\ Ids(Of(p, "post")) =
                  FuncIds(StoredUnder(middlewareBuilder.postMiddlewares, EntryOf(p).Name))
            /\ Ids(Of(p, "handler")) = <<EntryOf(p).Handler.id>>
\* a registration leaves every middleware list as it is: the lists of a name
\* outlive the entry they were added for
C33_ListsKept ==
    \A p \in Procs :
        pc[p] \in {"add_lock", "add_store", "add_current"} =>
            /\ middlewareBuilder'.preMiddlewares = middlewareBuilder.preMiddlewares
            /\ middlewareBuilder'.postMiddlewares = middlewareBuilder.postMiddlewares

\* C33: the middleware a dispatch runs are exactly the lists stored under the
\* name of the handler entry registered for the request's key at that time:
\* after the entry is replaced by a handler of another name the middleware of
\* the earlier handler no longer run for the key, a handler registered again
\* under the same name keeps the middleware added before, and two keys whose
\* entries have the same handler name run the same middleware.
C33_MiddlewareByEntryName ==
    []C33_ListsOfEntryName /\ [][C33_ListsKept]_vars

\* middleware A was added for a handler of type *H1 registered for K1, the
\* entry of K1 was then replaced by h4, and a dispatch of K1 ran h4 and no
\* middleware, the list of *H1 being still stored
C33_Witness ==
    /\ Resolved(1)
    /\ TypeOf(call[1].in) = K1
    /\ ~Has(handlers, K2)
    /\ EntryOf(1).Handler = H4
    /\ FuncIds(StoredUnder(middlewareBuilder.preMiddlewares, "*H1")) = <<"a">>
    /\ StoredUnder(middlewareBuilder.preMiddlewares, "*H4") = <<>>
    /\ Ids(trace[1]) = <<"h4">>
\* h2 was registered for K1 after middleware was added for the *H1 before it,
\* and runs that middleware
C33_WitnessSameName ==
    /\ Resolved(1)
    /\ ~Has(handlers, K2)
    /\ EntryOf(1).Handler = H2
    /\ Ids(trace[1]) = <<"a", "h2">>
\* K2's entry has the name of K1's and runs the middleware added after K1's
\* registration
C33_WitnessTwoKeys ==
    /\ Resolved(1)
    /\ TypeOf(call[1].in) = K2
    /\ EntryOf(1).Handler = H8
    /\ Has(handlers, K1) /\ handlers[K1].Handler = H4
    /\ Ids(trace[1]) = <<"a", "h8">>

\* the key a registration for type X stores under
RegisteredFor(m, X) == Has(m, X) /\ m[X] # <<>>
\* C34: registration and lookup agree on the key of a type: the handlers
\* registered for exactly the type X of a request or of an event, X a value
\* type or a pointer type, are found when a value of type X is dispatched or
\* published.
C34_KeysAgree ==
    \A p \in Procs :
        /\ Finished(p, Sends) /\ call[p].in # Nil /\ Has(handlers, TypeOf(call[p].in))
              => ~NotFound(p)
        /\ PublishedTo(p) /\ RegisteredFor(eventHandlers, TypeOf(call[p].in)) =>
              /\ ~NotFound(p)
              /\ Ids(Of(p, "event")) =
                    [i \in DOMAIN eventHandlers[TypeOf(call[p].in)] |->
                        eventHandlers[TypeOf(call[p].in)][i].eventHandler.id]

\* goroutine 2 has published after the last registration of goroutine 1
PublishedAfter == Finished(1, {"AddEventHandlers"}) /\ Finished(2, {"PublishEvent"})
\* the handlers the publish invoked
InvokedIds == {Of(2, "event")[j].id : j \in DOMAIN Of(2, "event")}
Steps(p) ==
    <<pc[p], loc[p], trace[p], result[p], call[p]>>
        # <<pc'[p], loc'[p], trace'[p], result'[p], call'[p]>>
\* the step of p belongs to a SendCommand, SendQuery or PublishEvent call
Dispatching(p) ==
    /\ Steps(p)
    /\ call'[p].op \in Sends \cup {"PublishEvent"}
    /\ pc[p] \notin {"dead"}
\* the step leaves the engine state as it is
EngineStateKept ==
    /\ handlers' = handlers
    /\ eventHandlers' = eventHandlers
    /\ middlewareBuilder' = middlewareBuilder
\* C36: dispatch and publish are read-only with respect to engine state: no
\* step of a SendCommand, SendQuery or PublishEvent call, whatever its outcome,
\* changes the handler registry, the event-handler registry, a middleware list
\* or the builder's current handler name.
C36_ReadOnly ==
    [][(\E p \in Procs : Dispatching(p)) => EngineStateKept]_vars

\* a publish has run two handlers and returned the error of one, with both
\* registries and the middleware lists as the registrations left them
C36_Witness ==
    /\ Finished(2, {"PublishEvent"})
    /\ result[2].kind = "return" /\ result[2].err # NoErr
    /\ Has(eventHandlers, K1) /\ Len(eventHandlers[K1]) = 2
    /\ Has(handlers, K1)
    /\ PreList("*H1") # <<>>
    /\ middlewareBuilder.currentHandlerName = "*H1"

\* on the handler registry alone, whose every access is inside handlerMutex,
\* each registration and each lookup ends (checked under SpecLockFair)
C37_LockCallsEnd ==
    \A p \in Procs : (pc[p] \notin {"idle", "dead"}) ~> (pc[p] = "idle")

\* C37: in every interleaving of dispatch, publish and registration calls in
\* which each invoked handler and middleware returns, every call that was
\* started eventually ends, handing a result or a panic to its caller, under
\* fair scheduling.
C37_EveryCallEnds ==
    \A p \in Procs : (pc[p] # "idle") ~> (pc[p] = "idle")

\* goroutine p has called reflectiveHandler.Handle
Reflected(p) == call[p].op = "reflectiveHandler.Handle"
\* it got an error value, and the wrapped method was not invoked
ErrorWithoutCall(p) ==
    /\ result[p].kind = "return"
    /\ result[p].err # NoErr
    /\ trace[p] = <<>>
\* the wrapped method was invoked exactly once, with the given context and request
CalledOnce(p) ==
    trace[p] = <<Invoked("handler", call[p].handler.id, call[p].ctx, call[p].in)>>
\* C38 as stated: an error for an uninitialized method or a nil request, one
\* invocation in every other case
C38_ErrorOrCall ==
    \A p \in Procs :
        Reflected(p) =>
            IF call[p].handler = NoHandler \/ call[p].in = Nil
            THEN ErrorWithoutCall(p)
            ELSE CalledOnce(p)

\* C38: reflectiveHandler.Handle returns an error value, without invoking the
\* wrapped method and without panicking, when its method is uninitialized, when
\* the context is nil or when the request is nil; it panics in the reflective
\* call, without invoking the method, when the request is not of the type of
\* the method's parameter; in every other case it invokes the wrapped method
\* exactly once with the given context and request.
C38_HandleCases ==
    \A p \in Procs :
        Reflected(p) =>
            IF call[p].handler = NoHandler \/ call[p].ctx = NilCtx \/ call[p].in = Nil
            THEN ErrorWithoutCall(p)
            ELSE IF TypeOf(call[p].in) # call[p].handler.req
            THEN result[p].kind = "panic" /\ trace[p] = <<>>
            ELSE CalledOnce(p)

\* Handle was given a method and a nil context: it returned the error and did
\* not invoke the method
C38_Witness ==
    /\ Reflected(1)
    /\ call[1].handler = H1
    /\ call[1].ctx = NilCtx
    /\ call[1].in = Value(K1, 1)
    /\ result[1].err = Errorf("reflectiveHandler: invalid or nil context")
    /\ trace[1] = <<>>

====
